---- MODULE Spec2Model ----
(***************************************************************************)
(* A model of the hangman package: the layered canvas (canvas.py), the     *)
(* word being guessed (word.py), the ask-until-valid conversation          *)
(* (conversation.py, choice_list.py) and the game and its rounds (game.py).*)
(*                                                                         *)
(* A character is its code point; a Python str is a sequence of code       *)
(* points, so 'A' is <<65>> and '' is <<>>.                                *)
(***************************************************************************)
EXTENDS Integers, Sequences, FiniteSets, TLC

(* ----------------------------- bounds --------------------------------- *)

\* The guessable letters of the model are the first NumLetters of 'A'..'Z'.
NumLetters == 7

\* Layers drawn as inputs of the merge have at most MaxCells cells.
MaxCells == 2

\* The width the pre-built components are padded to (80 in the package).
ComponentWidth == 3

\* The most layers a canvas under test is given.
MaxLayers == 3

\* The most layers one call of add_layers is passed.
MaxBatch == 2

\* The most characters a secret of the Word operations has.
MaxWordLen == 3

\* The most prompts one call of Conversation.ask issues.
MaxPrompts == 3

\* The most descriptors a ChoiceList under test is constructed with.
MaxChoices == 2

\* The most calls that construct a WordList under test.
MaxCalls == 3

(* ----------------------------- strings -------------------------------- *)

\* str.upper() on one character: the characters it becomes.  'a'..'z'
\* become 'A'..'Z'; U+00DF (sharp s) has no single upper-case character and
\* becomes 'SS'; the other characters modelled stay.
Upper(c) ==
    IF c >= 97 /\ c <= 122 THEN <<c - 32>>
    ELSE IF c = 223 THEN <<83, 83>>
    ELSE <<c>>

\* str.upper(): the upper-casings of the characters, in order.
RECURSIVE StrUpper(_)
StrUpper(s) == IF s = <<>> THEN <<>> ELSE Upper(s[1]) \o StrUpper(Tail(s))

\* The characters str.strip() removes (the ASCII ones).
IsWhitespace(c) == c \in {9, 10, 11, 12, 13, 28, 29, 30, 31, 32}

\* s.strip() == ''
StripsToEmpty(s) == \A i \in 1..Len(s) : IsWhitespace(s[i])

\* n copies of the character c (' ' * n)
Repeat(c, n) == [i \in 1..n |-> c]

\* str.ljust(width): pad on the right with spaces, never truncate.
LJust(s, width) == IF Len(s) >= width THEN s ELSE s \o Repeat(32, width - Len(s))

\* sep.join(parts)
RECURSIVE Join(_, _)
Join(sep, parts) ==
    IF parts = <<>> THEN <<>>
    ELSE IF Len(parts) = 1 THEN parts[1]
    ELSE parts[1] \o sep \o Join(sep, Tail(parts))

\* str.splitlines() for the line break '\n': no empty last line.
RECURSIVE SplitLinesFrom(_, _, _)
SplitLinesFrom(text, i, current) ==
    IF i > Len(text)
    THEN IF current = <<>> THEN <<>> ELSE <<current>>
    ELSE IF text[i] = 10
         THEN <<current>> \o SplitLinesFrom(text, i + 1, <<>>)
         ELSE SplitLinesFrom(text, i + 1, Append(current, text[i]))

SplitLines(text) == SplitLinesFrom(text, 1, <<>>)

\* list(s): the characters of a str, each a str of length 1.
CharsOf(s) == [i \in 1..Len(s) |-> <<s[i]>>]

\* max of a non-empty set of integers
Max(S) == CHOOSE x \in S : \A y \in S : y <= x

(* ----------------------------- errors --------------------------------- *)

\* A raised exception, as the value an operation yields instead of a result.
Raise(exception) == [error |-> exception]

IsError(x) == "error" \in DOMAIN x

(* ----------------------------- canvas.py: Layer ------------------------ *)

\* LayerCell(row, column, value), a frozen dataclass.
LayerCell(row, column, value) == [row |-> row, column |-> column, value |-> value]

\* LayerCell.is_transparent
IsTransparent(cell) == StripsToEmpty(cell.value)

\* A variant of the inner loop of Layer.__new__ that numbers the columns
\* from 1.
RowCellsFromOne(row_index, row) ==
    [j \in 1..Len(row) |-> LayerCell(row_index, j, row[j])]

\* The inner loop of Layer.__new__: the cells of one row, left to right.
RowCells(row_index, row) ==
    [j \in 1..Len(row) |-> LayerCell(row_index, j - 1, row[j])]

\* The outer loop of Layer.__new__: rows from row_index on, appended in order.
RECURSIVE GridCells(_, _)
GridCells(grid, row_index) ==
    IF row_index >= Len(grid) THEN <<>>
    ELSE RowCells(row_index, grid[row_index + 1]) \o GridCells(grid, row_index + 1)

\* Layer.__new__(argument): argument is a grid (rows of one-character strs).
LayerNew(argument) ==
    IF argument = <<>> THEN Raise("IndexError")
    ELSE LET first_row == argument[1]
             same_width == \A i \in 1..Len(argument) : Len(argument[i]) = Len(first_row)
         IN  IF ~same_width THEN Raise("ValueError")
             ELSE IF \E i \in 1..Len(argument) : \E j \in 1..Len(argument[i]) :
                         Len(argument[i][j]) # 1
                  THEN Raise("ValueError")
                  ELSE [height |-> Len(argument),
                        width  |-> Len(first_row),
                        cells  |-> GridCells(argument, 0)]

\* itertools.batched(cells, width), the last chunk padded with spaces.
RECURSIVE PaddedRows(_, _)
PaddedRows(cells, width) ==
    IF cells = <<>> THEN <<>>
    ELSE IF Len(cells) < width
         THEN <<cells \o [i \in 1..(width - Len(cells)) |-> <<32>>]>>
         ELSE <<SubSeq(cells, 1, width)>>
              \o PaddedRows(SubSeq(cells, width + 1, Len(cells)), width)

\* Layer.from_sequence(cells, width)
FromSequence(cells, width) ==
    IF width < 1 THEN Raise("ValueError")
    ELSE LayerNew(PaddedRows(cells, width))

\* Layer.from_text(text, width); width = -1 stands for None.
FromText(text, width) ==
    LET lines == SplitLines(text)
    IN  IF lines = <<>> THEN Raise("ValueError")
        ELSE LET longest_line_length == Max({Len(lines[i]) : i \in 1..Len(lines)})
                 w == Max({longest_line_length, width})
             IN  LayerNew([i \in 1..Len(lines) |-> CharsOf(LJust(lines[i], w))])

\* A variant of Layer.copy() that batches the values by the height of the
\* layer where the code batches them by its width.
CopyByHeight(layer) ==
    FromSequence([i \in 1..Len(layer.cells) |-> layer.cells[i].value], layer.height)

\* Layer.copy()
Copy(layer) ==
    FromSequence([i \in 1..Len(layer.cells) |-> layer.cells[i].value], layer.width)

\* A variant of Layer.__iadd__ that lets a cell of self that is not
\* transparent win over the cell of other.
IAddKeepingSelf(self, other) ==
    IF self.height # other.height \/ self.width # other.width
    THEN Raise("ValueError")
    ELSE [self EXCEPT !.cells =
            [index \in 1..Len(self.cells) |->
                IF IsTransparent(self.cells[index]) /\ ~IsTransparent(other.cells[index])
                THEN other.cells[index]
                ELSE self.cells[index]]]

\* A variant of Layer.__iadd__ that takes every cell of other, transparent
\* or not.
IAddOverwriting(self, other) ==
    IF self.height # other.height \/ self.width # other.width
    THEN Raise("ValueError")
    ELSE [self EXCEPT !.cells =
            [index \in 1..Len(self.cells) |-> other.cells[index]]]

\* A variant of Layer.__iadd__ without the comparison of the shapes: the
\* cells of other are merged as far as self has cells.
IAddUnchecked(self, other) ==
    [self EXCEPT !.cells =
        [index \in 1..Len(self.cells) |->
            IF index <= Len(other.cells) /\ ~IsTransparent(other.cells[index])
            THEN other.cells[index]
            ELSE self.cells[index]]]

\* Layer.__iadd__(self, other): the value self holds afterwards.
IAdd(self, other) ==
    IF self.height # other.height \/ self.width # other.width
    THEN Raise("ValueError")
    ELSE [self EXCEPT !.cells =
            [index \in 1..Len(self.cells) |->
                IF index <= Len(other.cells) /\ ~IsTransparent(other.cells[index])
                THEN other.cells[index]
                ELSE self.cells[index]]]

\* Layer.__add__(self, other)
Add(self, other) ==
    LET copied == Copy(self)
    IN  IF IsError(copied) THEN copied ELSE IAdd(copied, other)

(* Layers are objects: an operation has a value and may also write to its   *)
(* operands.  An effect records what the two operand objects hold after the *)
(* call, what the call evaluates to, and which object that is: "self", a    *)
(* "new" object, or none because the call raised ("error").                 *)

\* self += other.  The shapes are compared before the first cell is written,
\* only self._cells is assigned to, and `return self` hands back the operand.
IAddEffect(self, other) ==
    LET merged == IAdd(self, other)
    IN  [self     |-> IF IsError(merged) THEN self ELSE merged,
         other    |-> other,
         result   |-> merged,
         returned |-> IF IsError(merged) THEN "error" ELSE "self"]

\* A variant of Layer.__add__ that merges into self and returns it, without
\* the copy.
AddEffectInPlace(self, other) == IAddEffect(self, other)

\* self + other.  `copied = self.copy()` is a new object, `copied += other`
\* writes to it alone, and it is what is returned.
AddEffect(self, other) ==
    LET copied == Copy(self)
    IN  IF IsError(copied)
        THEN [self |-> self, other |-> other, result |-> copied, returned |-> "error"]
        ELSE LET in_place == IAddEffect(copied, other)
             IN  [self     |-> self,
                  other    |-> in_place.other,
                  result   |-> in_place.result,
                  returned |-> IF in_place.returned = "self" THEN "new"
                               ELSE in_place.returned]

\* Layer.__eq__(self, other): the cells are compared, as dataclasses.
LayerEq(self, other) == self.cells = other.cells

\* Layer.__getitem__((row_index, column_index)), for indices >= 0.
GetItem(layer, row_index, column_index) ==
    IF row_index >= layer.height \/ column_index >= layer.width
    THEN Raise("IndexError")
    ELSE layer.cells[layer.width * row_index + column_index + 1]

\* Layer.rows(): batched(self._cells, self._width)
RECURSIVE Batched(_, _)
Batched(cells, width) ==
    IF cells = <<>> THEN <<>>
    ELSE IF Len(cells) <= width THEN <<cells>>
    ELSE <<SubSeq(cells, 1, width)>> \o Batched(SubSeq(cells, width + 1, Len(cells)), width)

Rows(layer) == Batched(layer.cells, layer.width)

(* ----------------------------- canvas.py: Canvas ----------------------- *)

\* Canvas.__init__(height, width)
CanvasNew(height, width) == [height |-> height, width |-> width, layers |-> <<>>]

\* Canvas._fits_layer(layer)
FitsLayer(canvas, layer) == canvas.height = layer.height /\ canvas.width = layer.width

\* A variant of Canvas.add_layers that extends the canvas without asking
\* whether the layers fit.
AddLayersUnchecked(canvas, layers) ==
    [canvas EXCEPT !.layers = canvas.layers \o layers]

\* Canvas.add_layers(layers...): the canvas afterwards, or the error raised.
AddLayers(canvas, layers) ==
    IF ~(\A i \in 1..Len(layers) : FitsLayer(canvas, layers[i]))
    THEN Raise("ValueError")
    ELSE [canvas EXCEPT !.layers = canvas.layers \o layers]

\* A variant of Canvas.add_layers that appends layer by layer and raises at
\* the first one that does not fit, the ones before it appended.
RECURSIVE AddLayersEffectOneByOne(_, _)
AddLayersEffectOneByOne(canvas, layers) ==
    IF layers = <<>> THEN [canvas |-> canvas, result |-> [none |-> TRUE]]
    ELSE IF ~FitsLayer(canvas, layers[1])
         THEN [canvas |-> canvas, result |-> Raise("ValueError")]
         ELSE AddLayersEffectOneByOne(
                [canvas EXCEPT !.layers = Append(canvas.layers, layers[1])],
                Tail(layers))

\* canvas.add_layers(layers...): what the canvas holds afterwards and what the
\* call evaluates to, None or the error raised before _layers is extended.
AddLayersEffect(canvas, layers) ==
    LET extended == AddLayers(canvas, layers)
    IN  IF IsError(extended)
        THEN [canvas |-> canvas, result |-> extended]
        ELSE [canvas |-> extended, result |-> [none |-> TRUE]]

\* Canvas.from_layer(layer)
CanvasFromLayer(layer) == AddLayers(CanvasNew(layer.height, layer.width), <<layer>>)

\* A variant of sum(others, start = first) that adds the layers of others
\* from the last to the first.
RECURSIVE SumFromLast(_, _)
SumFromLast(others, start) ==
    IF others = <<>> \/ IsError(start) THEN start
    ELSE SumFromLast(SubSeq(others, 1, Len(others) - 1),
                     Add(start, others[Len(others)]))

\* sum(others, start = first): the left fold of Layer.__add__.
RECURSIVE Sum(_, _)
Sum(others, start) ==
    IF others = <<>> \/ IsError(start) THEN start
    ELSE Sum(Tail(others), Add(start, others[1]))

\* A variant of sum(others, start = first) that keeps its running total in
\* the object it was started with: total = first, then total += layer.
RECURSIVE SumEffectInPlace(_, _)
SumEffectInPlace(others, start) ==
    IF others = <<>> THEN [start |-> start, result |-> start]
    ELSE LET added == IAddEffect(start, others[1])
         IN  IF IsError(added.result) THEN [start |-> added.self, result |-> added.result]
             ELSE SumEffectInPlace(Tail(others), added.self)

\* sum(others, start = first) with what it leaves in the object first: the
\* running total starts as first and is replaced by total + layer for each
\* layer of others.  Only if + returned its own left operand would a later +
\* reach first again.
RECURSIVE SumEffect(_, _)
SumEffect(others, start) ==
    IF others = <<>> THEN [start |-> start, result |-> start]
    ELSE LET added == AddEffect(start, others[1])
         IN  IF IsError(added.result) THEN [start |-> added.self, result |-> added.result]
             ELSE LET rest == SumEffect(Tail(others), added.result)
                  IN  [start  |-> IF added.returned = "self" THEN rest.start
                                  ELSE added.self,
                       result |-> rest.result]

\* Canvas.__str__(): what the stored layers hold afterwards.  The first layer
\* is the start of the sum, the others are its right operands, which a merge
\* only reads.
LayersAfterStr(canvas) ==
    IF canvas.layers = <<>> THEN <<>>
    ELSE <<SumEffect(Tail(canvas.layers), canvas.layers[1]).start>>
            \o Tail(canvas.layers)

\* ''.join(cell.value for cell in row)
RECURSIVE JoinValues(_)
JoinValues(row) == IF row = <<>> THEN <<>> ELSE row[1].value \o JoinValues(Tail(row))

\* A variant of Canvas.__str__ whose blank text has width lines of height
\* spaces.
CanvasStrBlankTransposed(canvas) ==
    IF canvas.layers = <<>>
    THEN Join(<<10>>, [i \in 1..canvas.width |-> Repeat(32, canvas.height)])
    ELSE LET flattened == Sum(Tail(canvas.layers), canvas.layers[1])
             rows == Rows(flattened)
         IN  Join(<<10>>, [i \in 1..Len(rows) |-> JoinValues(rows[i])])

\* Canvas.__str__(); an error of the sum is the error of the call.
CanvasStr(canvas) ==
    IF canvas.layers = <<>>
    THEN Join(<<10>>, [i \in 1..canvas.height |-> Repeat(32, canvas.width)])
    ELSE LET flattened == Sum(Tail(canvas.layers), canvas.layers[1])
             rows == Rows(flattened)
         IN  IF IsError(flattened) THEN flattened
             ELSE Join(<<10>>, [i \in 1..Len(rows) |-> JoinValues(rows[i])])

(* The assets are files of the package that hold ASCII art; here each is a  *)
(* two-line text.  10 is the line break.                                    *)
AssetGallows  == <<43, 45, 10, 124>>              \* "+-"  / "|"
AssetHead     == <<32, 32, 79, 10, 32>>           \* "  O" / " "
AssetTrunk    == <<32, 10, 32, 32, 124>>          \* " "   / "  |"
AssetLeftArm  == <<32, 10, 32, 47>>               \* " "   / " /"
AssetRightArm == <<32, 10, 9, 32, 92>>            \* " "   / "\t \"
AssetLeftLeg  == <<32, 47, 10, 32>>               \* " /"  / " "
AssetRightLeg == <<32, 32, 92, 10, 32>>           \* "  \" / " "
AssetYouLost  == <<88, 10, 88, 88, 88>>           \* "X"   / "XXX"

\* _make_80_wide_layer = partial(Layer.from_text, width = 80)
MakeWideLayer(text) == FromText(text, ComponentWidth)

\* class Component: the pre-built layers.
GALLOWS   == MakeWideLayer(AssetGallows)
HEAD      == MakeWideLayer(AssetHead)
TRUNK     == MakeWideLayer(AssetTrunk)
LEFT_ARM  == MakeWideLayer(AssetLeftArm)
RIGHT_ARM == MakeWideLayer(AssetRightArm)
LEFT_LEG  == MakeWideLayer(AssetLeftLeg)
RIGHT_LEG == MakeWideLayer(AssetRightLeg)
YOU_LOST  == MakeWideLayer(AssetYouLost)

\* The members of Component as the module is loaded.
Component ==
    [GALLOWS |-> GALLOWS, HEAD |-> HEAD, TRUNK |-> TRUNK, LEFT_ARM |-> LEFT_ARM,
     RIGHT_ARM |-> RIGHT_ARM, LEFT_LEG |-> LEFT_LEG, RIGHT_LEG |-> RIGHT_LEG,
     YOU_LOST |-> YOU_LOST]

(* ----------------------------- word.py -------------------------------- *)

\* The indices (from 0) at which character occurs in value, in order.
RECURSIVE IndicesOf(_, _, _)
IndicesOf(value, character, index) ==
    IF index >= Len(value) THEN <<>>
    ELSE (IF <<value[index + 1]>> = character THEN <<index>> ELSE <<>>)
         \o IndicesOf(value, character, index + 1)

\* Word.__init__(value)
WordNew(value) ==
    LET upper == StrUpper(value)
    IN  [value |-> upper,
         masked |-> [i \in 1..Len(value) |-> <<95>>],
         character_indices |->
            [character \in {<<upper[i]>> : i \in 1..Len(upper)} |->
                IndicesOf(upper, character, 0)]]

\* Word.__contains__(item)
WordContains(word, item) == StrUpper(item) \in DOMAIN word.character_indices

\* Word.current_state
CurrentState(word) == Join(<<32>>, word.masked)

\* Word.all_clear
AllClear(word) == \A i \in 1..Len(word.masked) : word.masked[i] # <<95>>

\* A variant of Word.count that reveals the first occurrence only.
WordCountRevealingFirst(word, guess) ==
    IF ~WordContains(word, guess)
    THEN [count |-> 0, word |-> word]
    ELSE LET indices == word.character_indices[guess]
         IN  [count |-> Len(indices),
              word  |-> [word EXCEPT !.masked[indices[1] + 1] = guess]]

\* A variant of Word.count that answers -1, as str.find does, for a
\* character the word does not have.
WordCountFindLike(word, guess) ==
    IF ~WordContains(word, guess)
    THEN [count |-> -1, word |-> word]
    ELSE LET indices == word.character_indices[guess]
         IN  [count |-> Len(indices),
              word  |-> [word EXCEPT !.masked =
                           [i \in 1..Len(word.masked) |->
                               IF \E k \in 1..Len(indices) : indices[k] + 1 = i
                               THEN guess ELSE word.masked[i]]]]

\* A variant of Word.count that returns the number of positions the call
\* has newly revealed.
WordCountNewlyRevealed(word, guess) ==
    IF ~WordContains(word, guess)
    THEN [count |-> 0, word |-> word]
    ELSE IF guess \notin DOMAIN word.character_indices
         THEN [error |-> "KeyError", word |-> word]
         ELSE LET indices == word.character_indices[guess]
                  hit == {indices[k] + 1 : k \in 1..Len(indices)}
                         \cap (1..Len(word.masked))
                  after == [word EXCEPT !.masked =
                              [i \in 1..Len(word.masked) |->
                                  IF i \in hit THEN guess ELSE word.masked[i]]]
              IN  IF \E k \in 1..Len(indices) : indices[k] >= Len(word.masked)
                  THEN [error |-> "IndexError", word |-> after]
                  ELSE [count |-> Cardinality({i \in hit : word.masked[i] = <<95>>}),
                        word  |-> after]

\* Word.count(guess): the value returned, or the error raised, and the word
\* afterwards.  The membership test upper-cases the guess, the lookup in
\* _character_indices does not (KeyError); the loop writes _masked index by
\* index, in ascending order, and stops at the first index _masked does not
\* have (IndexError), with the earlier indices written.
WordCount(word, guess) ==
    IF ~WordContains(word, guess)
    THEN [count |-> 0, word |-> word]
    ELSE IF guess \notin DOMAIN word.character_indices
         THEN [error |-> "KeyError", word |-> word]
         ELSE LET indices == word.character_indices[guess]
                  hit == {indices[k] + 1 : k \in 1..Len(indices)}
                         \cap (1..Len(word.masked))
                  after == [word EXCEPT !.masked =
                              [i \in 1..Len(word.masked) |->
                                  IF i \in hit THEN guess ELSE word.masked[i]]]
              IN  IF \E k \in 1..Len(indices) : indices[k] >= Len(word.masked)
                  THEN [error |-> "IndexError", word |-> after]
                  ELSE [count |-> Len(indices), word |-> after]

(* ----------------------------- choice_list.py ------------------------- *)

\* Level (word_list.py): a StrEnum, each member is its own name as a str.
EASY   == <<69, 65, 83, 89>>
MEDIUM == <<77, 69, 68, 73, 85, 77>>
HARD   == <<72, 65, 82, 68>>
UNIX   == <<85, 78, 73, 88>>

\* ChoiceDescriptor(description, aliases, value), under its shortcut.
Descriptor(shortcut, description, aliases, value) ==
    [shortcut |-> shortcut, description |-> description,
     aliases |-> aliases, value |-> value]

\* The Choice that ChoiceList.__new__ builds from one descriptor.
ChoiceOf(d) ==
    [shortcut |-> StrUpper(d.shortcut), description |-> d.description,
     aliases |-> {StrUpper(alias) : alias \in d.aliases}, value |-> d.value]

\* ChoiceList.__new__(**kwargs): kwargs in order; a later entry overwrites an
\* earlier one under the same key.
ChoiceListNew(kwargs) ==
    LET choices == [i \in 1..Len(kwargs) |-> ChoiceOf(kwargs[i])]
        Last(S) == Max(S)
    IN  [shortcut_map |->
            [shortcut \in {choices[i].shortcut : i \in 1..Len(choices)} |->
                choices[Last({i \in 1..Len(choices) : choices[i].shortcut = shortcut})]],
         alias_map |->
            [alias \in UNION {choices[i].aliases : i \in 1..Len(choices)} |->
                choices[Last({i \in 1..Len(choices) : alias \in choices[i].aliases})]]]

\* ChoiceList.__contains__(item)
ChoiceListContains(choice_list, item) ==
    LET upper == StrUpper(item)
    IN  upper \in DOMAIN choice_list.shortcut_map \/ upper \in DOMAIN choice_list.alias_map

\* A variant of ChoiceList.__getitem__ that looks the item up as it is
\* passed.
ChoiceListGetItemCaseSensitive(choice_list, item) ==
    IF item \in DOMAIN choice_list.shortcut_map
    THEN choice_list.shortcut_map[item]
    ELSE IF item \in DOMAIN choice_list.alias_map
         THEN choice_list.alias_map[item]
         ELSE Raise("KeyError")

\* ChoiceList.__getitem__(item)
ChoiceListGetItem(choice_list, item) ==
    LET upper == StrUpper(item)
    IN  IF upper \in DOMAIN choice_list.shortcut_map
        THEN choice_list.shortcut_map[upper]
        ELSE IF upper \in DOMAIN choice_list.alias_map
             THEN choice_list.alias_map[upper]
             ELSE Raise("KeyError")

\* Choices.CONFIRMATION: Y / 'Yes' and N / 'No'.
CONFIRMATION ==
    ChoiceListNew(<<Descriptor(<<89>>, "Yes", {<<89, 101, 115>>}, <<89, 69, 83>>),
                    Descriptor(<<78>>, "No", {<<78, 111>>}, <<78, 79>>)>>)

\* Choices.LEVEL: E, M, H, U and the level names.
LEVEL ==
    ChoiceListNew(<<Descriptor(<<69>>, "Easy (22.5k words)", {EASY}, EASY),
                    Descriptor(<<77>>, "Medium (74.5k words)", {MEDIUM}, MEDIUM),
                    Descriptor(<<72>>, "Hard (168k words)", {HARD}, HARD),
                    Descriptor(<<85>>, "Unix (205k words)", {UNIX}, UNIX)>>)

\* The choices argument of a question asked without choices.
NoChoices == [shortcut_map |-> <<>>, alias_map |-> <<>>]

(* ----------------------------- conversation.py ------------------------ *)

\* Validator(predicate, warning); the predicate is named, Passes applies it.
Validator(predicate, warning) == [predicate |-> predicate, warning |-> warning]

\* game.py: _response_is_ascii_letter(character, _)
ResponseIsAsciiLetter(character) ==
    Len(character) = 1 /\ 65 <= character[1] /\ character[1] <= 90

\* GameRound._not_previously_guessed(response, _choices)
NotPreviouslyGuessed(response, previous) == response \notin previous

\* conversation.py: _response_is_valid_choice(response, choices)
ResponseIsValidChoice(response, choices) == ChoiceListContains(choices, response)

\* Validator.__call__(response, choices); previous is the guessed set that the
\* bound method _not_previously_guessed reads.
Passes(validator, response, choices, previous) ==
    CASE validator.predicate = "_response_is_ascii_letter" ->
            ResponseIsAsciiLetter(response)
      [] validator.predicate = "_not_previously_guessed" ->
            NotPreviouslyGuessed(response, previous)
      [] validator.predicate = "_response_is_valid_choice" ->
            ResponseIsValidChoice(response, choices)

\* A variant of find_first_failing_validator that runs every validator and
\* returns the last one that fails.
RECURSIVE FindLastFailingValidator(_, _, _, _, _)
FindLastFailingValidator(validators, index, response, choices, previous) ==
    LET failing == {i \in index..Len(validators) :
                        ~Passes(validators[i], response, choices, previous)}
    IN  IF failing = {} THEN 0 ELSE Max(failing)

\* _ValidatorList.find_first_failing_validator: the index of the first
\* validator that fails, 0 for None.
RECURSIVE FindFirstFailingValidator(_, _, _, _, _)
FindFirstFailingValidator(validators, index, response, choices, previous) ==
    IF index > Len(validators) THEN 0
    ELSE IF ~Passes(validators[index], response, choices, previous) THEN index
    ELSE FindFirstFailingValidator(validators, index + 1, response, choices, previous)

\* Conversation._get_response: the raw input, uppercased.
GetResponse(raw) == StrUpper(raw)

\* One pass of Conversation._ask on the raw input: the response, and the
\* warning to reply with ("" when it passes every validator).
AskOnce(raw, validators, choices, previous) ==
    LET response == GetResponse(raw)
        failing == FindFirstFailingValidator(validators, 1, response, choices, previous)
    IN  [response |-> response,
         accepted |-> failing = 0,
         warning  |-> IF failing = 0 THEN "" ELSE validators[failing].warning]

\* Conversation.ask with choices and no `until`: the default validator.
ChoiceValidators ==
    <<Validator("_response_is_valid_choice", "Invalid response. Please try again.")>>

\* A variant of the validators of a guess without the check of the guessed set.
GuessValidatorsLetterOnly ==
    <<Validator("_response_is_ascii_letter", "Invalid guess. Please input a letter.")>>

\* GameRound._prompt_for_guess: the two validators, in this order.
GuessValidators ==
    <<Validator("_response_is_ascii_letter", "Invalid guess. Please input a letter."),
      Validator("_not_previously_guessed",
                "You have already guessed this letter. Please try again.")>>

\* Conversation._INVALID_RESPONSE
INVALID_RESPONSE == "Invalid response. Please try again."

\* A predicate passed to ask without a Validator around it.
Bare(predicate) == [predicate |-> predicate]

\* Conversation._make_validator(predicate): a Validator is kept, a bare
\* predicate gets the warning _INVALID_RESPONSE.
MakeValidator(predicate) ==
    IF "warning" \in DOMAIN predicate THEN predicate
    ELSE Validator(predicate.predicate, INVALID_RESPONSE)

\* The `until` argument of Conversation.ask: None ("none"), one predicate
\* ("one", value holds it alone), or an iterable of predicates ("many").
Until(kind, value) == [kind |-> kind, value |-> value]

\* Conversation.ask(question, choices, until = ...): the validator list it
\* hands to _ask.  NoChoices stands for choices = None.
AskValidators(choices, until) ==
    IF choices # NoChoices /\ until.kind = "none"
    THEN <<MakeValidator(Bare("_response_is_valid_choice"))>>
    ELSE IF until.kind = "many"
         THEN [i \in 1..Len(until.value) |-> MakeValidator(until.value[i])]
         ELSE IF until.kind = "one"
              THEN <<MakeValidator(until.value[1])>>
              ELSE <<>>

\* The loop of _ValidatorList.find_first_failing_validator: the indices of
\* the validators it calls, in order; it returns at the first that fails.
RECURSIVE ValidatorsCalled(_, _, _, _, _)
ValidatorsCalled(validators, index, response, choices, previous) ==
    IF index > Len(validators) THEN <<>>
    ELSE <<index>> \o
         (IF ~Passes(validators[index], response, choices, previous) THEN <<>>
          ELSE ValidatorsCalled(validators, index + 1, response, choices, previous))

(* ----------------------------- word_list.py --------------------------- *)

(* The word files are data of the package; each level has a short list here: *)
(* a lower-case word, a word with a repeated letter, and words with a        *)
(* character that is no letter, one of them in the files of two levels.      *)
EasyWords   == <<<<97, 98>>, <<99, 45, 99>>>>     \* "ab", "c-c"
MediumWords == <<<<65, 66, 65>>>>                 \* "ABA"
HardWords   == <<<<99, 45, 99>>>>                 \* "c-c"
UnixWords   == <<<<45>>>>                         \* "-"

\* WordList.from_level(level): the words of the level's file.
WordListFromLevel(lvl) ==
    CASE StrUpper(lvl) = EASY -> EasyWords
      [] StrUpper(lvl) = MEDIUM -> MediumWords
      [] StrUpper(lvl) = HARD -> HardWords
      [] StrUpper(lvl) = UNIX -> UnixWords

\* _static_reader.word_list_directory / filename, as str(...) gives it.
InWordListDirectory(filename) == "words/" \o filename

\* The files there are, by name: the four files of the package.
ExistingFiles ==
    {InWordListDirectory("easy.txt"), InWordListDirectory("medium.txt"),
     InWordListDirectory("hard.txt"), InWordListDirectory("unix.txt")}

\* file.read().splitlines() of the file of that name.
FileLines(name) ==
    CASE name = InWordListDirectory("easy.txt") -> EasyWords
      [] name = InWordListDirectory("medium.txt") -> MediumWords
      [] name = InWordListDirectory("hard.txt") -> HardWords
      [] name = InWordListDirectory("unix.txt") -> UnixWords

\* A file name argument: a str or a PathLike, with the text str() gives.
FileName(kind, text) == [kind |-> kind, text |-> text]

\* A variant of WordList.__new__ that constructs and reads without looking
\* into _instances.
WordListNewUncached(instances, reads, filename) ==
    LET name == filename.text
        created == Cardinality(DOMAIN instances) + reads[name] + 1
    IN  IF name \in ExistingFiles
        THEN LET instance == [id |-> created, loaded |-> TRUE, list |-> FileLines(name)]
             IN  [instances |-> [n \in DOMAIN instances \cup {name} |->
                                    IF n = name THEN instance ELSE instances[n]],
                  reads     |-> [reads EXCEPT ![name] = @ + 1],
                  result    |-> instance]
        ELSE [instances |-> instances, reads |-> reads,
              result |-> Raise("FileNotFoundError")]

\* WordList.__new__(cls, filename), on the class attribute _instances and
\* the number of times each file has been read: what they are afterwards and
\* the instance returned, or the error.  An instance is the id-th one
\* created; it enters _instances before the file is opened, so it stays
\* there, without _list, when open() raises.
WordListNew(instances, reads, filename) ==
    LET name == filename.text
    IN  IF name \in DOMAIN instances
        THEN [instances |-> instances, reads |-> reads, result |-> instances[name]]
        ELSE LET created == Cardinality(DOMAIN instances) + 1
                 exists == name \in ExistingFiles
                 instance == [id     |-> created,
                              loaded |-> exists,
                              list   |-> IF exists THEN FileLines(name) ELSE <<>>]
             IN  [instances |-> [n \in DOMAIN instances \cup {name} |->
                                    IF n = name THEN instance ELSE instances[n]],
                  reads     |-> IF exists THEN [reads EXCEPT ![name] = @ + 1]
                                ELSE reads,
                  result    |-> IF exists THEN instance
                                ELSE Raise("FileNotFoundError")]

\* WordList.from_level(level), on _instances and the reads, as WordListNew.
FromLevel(instances, reads, lvl) ==
    LET upper == StrUpper(lvl)
    IN  IF upper \notin {EASY, MEDIUM, HARD, UNIX}
        THEN [instances |-> instances, reads |-> reads, result |-> Raise("ValueError")]
        ELSE LET filename == CASE upper = EASY -> "easy.txt"
                               [] upper = MEDIUM -> "medium.txt"
                               [] upper = HARD -> "hard.txt"
                               [] upper = UNIX -> "unix.txt"
             IN  WordListNew(instances, reads,
                             FileName("Path", InWordListDirectory(filename)))

(* ----------------------------- game.py -------------------------------- *)

VARIABLES
    pc,             \* where the program stands (see the actions)
    reward,         \* Game._reward
    penalty,        \* Game._penalty
    points,         \* Game._points
    ended,          \* Game._ended
    used_words,     \* Game._used_words
    level,          \* the local `level` of Game._start_round, '' before the first
    canvas,         \* GameRound._canvas
    layer_stack,    \* GameRound._layer_stack
    word,           \* GameRound._word
    coefficient,    \* GameRound._coefficient
    guesses,        \* GameRound._guesses
    out,            \* what the last step passed to the output displayer, in order
    components,     \* what the layer objects of Component hold
    self_layer,     \* Layer operations: the left operand
    other_layer,    \* Layer operations: the right operand
    result_layer,   \* Layer operations: the value returned
    layer_op,       \* Layer operations: the operation applied last
    third_layer,    \* Layer operations: the third operand of a double merge
    regrouped_layer,\* Layer operations: the value of self + (other + third)
    returned,       \* Layer operations: which object the value returned is
    canvas_self,    \* Canvas operations: the canvas
    layers_arg,     \* Canvas operations: the layers passed to the last call
    canvas_result,  \* Canvas operations: the value returned
    canvas_op,      \* Canvas operations: the operation applied last
    argument,       \* Layer construction: the rows passed to Layer(...)
    constructed,    \* Layer construction: the layer built, or the error
    built,          \* Layer building: the layer built last, or the error
    built_by,       \* Layer building: the call that built it
    secret,         \* Word operations: the str passed to Word(...)
    word_self,      \* Word operations: the Word
    word_guess,     \* Word operations: the guess of the last count(guess), '' before it
    word_count,     \* Word operations: what the last count(guess) returned or raised
    word_counts,    \* Word operations: what count(guess) did last, per guess made
    ask_choices,    \* Conversation.ask: the choices argument
    ask_validators, \* Conversation.ask: the validator list handed to _ask
    ask_pc,         \* Conversation.ask: "prompt" in the loop of _ask, "returned" after it
    ask_prompts,    \* Conversation.ask: the calls of the input callable so far
    ask_raws,       \* Conversation.ask: what the input callable returned, in order
    ask_calls,      \* Conversation.ask: the validators called on the last response
    ask_replies,    \* Conversation.ask: the warnings passed to reply, in order
    ask_returned,   \* Conversation.ask: the response returned
    choice_kwargs,  \* ChoiceList operations: the descriptors passed to ChoiceList(...)
    choice_self,    \* ChoiceList operations: the list
    choice_item,    \* ChoiceList operations: the item looked up last
    choice_found,   \* ChoiceList operations: the value of `item in list`
    choice_got,     \* ChoiceList operations: what list[item] returned or raised
    instances,      \* WordList operations: WordList._instances
    reads,          \* WordList operations: how often each file has been read
    calls           \* WordList operations: the calls made and what each returned

gameVars == <<pc, reward, penalty, points, ended, used_words, level,
              canvas, layer_stack, word, coefficient, guesses, out, components>>
layerVars == <<self_layer, other_layer, result_layer, layer_op,
               third_layer, regrouped_layer, returned>>
canvasVars == <<canvas_self, layers_arg, canvas_result, canvas_op>>
constructVars == <<argument, constructed>>
buildVars == <<built, built_by>>
wordVars == <<secret, word_self, word_guess, word_count, word_counts>>
askVars == <<ask_choices, ask_validators, ask_pc, ask_prompts, ask_raws, ask_calls, ask_replies, ask_returned>>
choiceVars == <<choice_kwargs, choice_self, choice_item, choice_found, choice_got>>
cacheVars == <<instances, reads, calls>>
unitVars == <<layerVars, canvasVars, constructVars, buildVars, wordVars, askVars, choiceVars, cacheVars>>
vars == <<gameVars, unitVars>>

\* The value of a field nothing has been assigned to yet.
None == [none |-> TRUE]

\* No Layer operation has been applied and there are no operands.
LayerIdle ==
    /\ self_layer = None
    /\ other_layer = None
    /\ result_layer = None
    /\ layer_op = "none"
    /\ third_layer = None
    /\ regrouped_layer = None
    /\ returned = "none"

\* There is no canvas under test.
CanvasIdle ==
    /\ canvas_self = None
    /\ layers_arg = <<>>
    /\ canvas_result = None
    /\ canvas_op = "none"

\* No Layer is being constructed.
ConstructIdle ==
    /\ argument = <<>>
    /\ constructed = None

\* No Layer has been built.
BuildIdle ==
    /\ built = None
    /\ built_by = "none"

\* There is no Word under test.
WordIdle ==
    /\ secret = <<>>
    /\ word_self = None
    /\ word_guess = <<>>
    /\ word_count = None
    /\ word_counts = <<>>

\* No question is being asked.
AskIdle ==
    /\ ask_choices = NoChoices
    /\ ask_validators = <<>>
    /\ ask_pc = "idle"
    /\ ask_prompts = 0
    /\ ask_raws = <<>>
    /\ ask_calls = <<>>
    /\ ask_replies = <<>>
    /\ ask_returned = None

\* There is no ChoiceList under test.
ChoiceIdle ==
    /\ choice_kwargs = <<>>
    /\ choice_self = None
    /\ choice_item = <<>>
    /\ choice_found = FALSE
    /\ choice_got = None

\* No WordList has been constructed.
CacheIdle ==
    /\ instances = <<>>
    /\ reads = <<>>
    /\ calls = <<>>

\* Game.COEFFICENTS
COEFFICENTS(lvl) ==
    CASE lvl = EASY -> 1
      [] lvl = MEDIUM -> 2
      [] lvl = HARD -> 3
      [] lvl = UNIX -> 4

\* One call of the output displayer.
Msg(kind, arg) == [kind |-> kind, arg |-> arg]

\* A variant of the points setter that does not clamp.
SetPointsUnclamped(value) == value

\* The points setter: self._points = max(value, 0)
SetPoints(value) == Max({value, 0})

\* A variant of Game.reward_correct_guess that ignores the count.
RewardIgnoringCount(current, count, coef) ==
    IF current + reward * coef < 0 THEN 0 ELSE current + reward * coef

\* Game.reward_correct_guess(count, coefficient): the points afterwards.
RewardCorrectGuess(current, count, coef) == SetPoints(current + reward * count * coef)

\* Game.penalize_incorrect_guess(coefficient): the points afterwards.
PenalizeIncorrectGuess(current, coef) == SetPoints(current + penalty * coef)

\* GameRound.lives_left
lives_left == Len(layer_stack)

\* A variant of the loop condition of GameRound.start that ignores the lives.
TurnConditionIgnoringLives == ~AllClear(word)

\* The loop condition of GameRound.start.
TurnCondition == ~AllClear(word) /\ lives_left # 0

\* Game.output_current_points, for the given points.
PointsMsg(p) == Msg("points", p)

\* Game.end(): the flag is set by the action; these are its two outputs.
EndOutput(p) == <<Msg("game_over", "Game over."), PointsMsg(p)>>

(* The inputs typed at the three prompts.  Guesses: the letters 'A'.. of the *)
(* model, 'a', and responses that are no single letter: '', 'AB', '@', '['.  *)
Letters == {<<64 + i>> : i \in 1..NumLetters}
GuessInputs ==
    Letters \cup {<<97>>, <<>>, <<65, 66>>, <<64>>, <<91>>}
LevelInputs ==
    {<<69>>, <<101>>, <<77>>, <<72>>, <<85>>, EASY, <<109, 101, 100, 105, 117, 109>>,
     <<72, 97, 114, 100>>, UNIX, <<>>, <<88>>, <<69, 65>>}
ContinueInputs ==
    {<<89>>, <<121>>, <<89, 69, 83>>, <<121, 101, 115>>, <<78>>, <<110>>, <<78, 111>>,
     <<>>, <<88>>, <<89, 78>>}

\* Game.__init__: the reward and penalty a game is constructed with.
GameParameters == {<<2, -1>>}

Init ==
    /\ pc = "start"
    /\ \E p \in GameParameters : reward = p[1] /\ penalty = p[2]
    /\ points = 0
    /\ ended = FALSE
    /\ used_words = {}
    /\ level = <<>>
    /\ canvas = None
    /\ layer_stack = <<>>
    /\ word = None
    /\ coefficient = 0
    /\ guesses = {}
    /\ out = <<>>
    /\ components = Component
    /\ LayerIdle
    /\ CanvasIdle
    /\ ConstructIdle
    /\ BuildIdle
    /\ WordIdle
    /\ AskIdle
    /\ ChoiceIdle
    /\ CacheIdle

\* Game._start up to the first prompt: title, instructions, then _start_round
\* asks for the level.
Start ==
    /\ pc = "start"
    /\ out' = <<Msg("title", "TITLE"), Msg("instructions", "INSTRUCTIONS")>>
    /\ pc' = "prompt_level"
    /\ UNCHANGED <<reward, penalty, points, ended, used_words, level,
                   canvas, layer_stack, word, coefficient, guesses>>
    /\ UNCHANGED <<components, unitVars>>

\* Game._prompt_for_level: one response to 'Choose a level:'.
LevelResponse ==
    /\ pc = "prompt_level"
    /\ \E raw \in LevelInputs :
        LET asked == AskOnce(raw, ChoiceValidators, LEVEL, {})
        IN  IF asked.accepted
            THEN /\ level' = ChoiceListGetItem(LEVEL, asked.response).value
                 /\ out' = <<>>
                 /\ pc' = "pick_word"
            ELSE /\ out' = <<Msg("warning", asked.warning)>>
                 /\ UNCHANGED <<pc, level>>
    /\ UNCHANGED <<reward, penalty, points, ended, used_words,
                   canvas, layer_stack, word, coefficient, guesses>>
    /\ UNCHANGED <<components, unitVars>>

\* A variant of GameRound.__init__ whose stack holds the right arm before
\* the left arm.
InitialLayerStackRightArmFirst ==
    <<components.HEAD, components.TRUNK, components.RIGHT_ARM,
      components.LEFT_ARM, components.LEFT_LEG, components.RIGHT_LEG>>

\* GameRound.__init__: the six layers of the stack, in order.
InitialLayerStack ==
    <<components.HEAD, components.TRUNK, components.LEFT_ARM,
      components.RIGHT_ARM, components.LEFT_LEG, components.RIGHT_LEG>>

\* A variant of Game._start_round that hands the first word drawn to the
\* round, without the loop over _used_words.
PickWordAnyWord ==
    /\ pc = "pick_word"
    /\ LET word_list == WordListFromLevel(level)
       IN  \E i \in 1..Len(word_list) :
            /\ used_words' = used_words \cup {word_list[i]}
            /\ canvas' = CanvasFromLayer(components.GALLOWS)
            /\ layer_stack' = InitialLayerStack
            /\ word' = WordNew(word_list[i])
            /\ coefficient' = COEFFICENTS(level)
            /\ guesses' = {}
            /\ out' = <<>>
            /\ pc' = "round"
    /\ UNCHANGED <<reward, penalty, points, ended, level>>
    /\ UNCHANGED <<components, unitVars>>

\* Game._start_round from word_list.get_random_word() on: a drawn word that was
\* used already is drawn again; otherwise it is recorded and GameRound.__init__
\* builds the round.
PickWord ==
    /\ pc = "pick_word"
    /\ LET word_list == WordListFromLevel(level)
       IN  \E i \in 1..Len(word_list) :
            IF word_list[i] \in used_words
            THEN UNCHANGED <<pc, used_words, canvas, layer_stack, word,
                             coefficient, guesses, out>>
            ELSE /\ used_words' = used_words \cup {word_list[i]}
                 /\ canvas' = CanvasFromLayer(components.GALLOWS)
                 /\ layer_stack' = InitialLayerStack
                 /\ word' = WordNew(word_list[i])
                 /\ coefficient' = COEFFICENTS(level)
                 /\ guesses' = {}
                 /\ out' = <<>>
                 /\ pc' = "round"
    /\ UNCHANGED <<reward, penalty, points, ended, level>>
    /\ UNCHANGED <<components, unitVars>>

\* str(self._canvas) in a round: what the canvas and the members of
\* Component hold afterwards.  The first layer of the canvas is the object
\* Component.GALLOWS (GameRound.__init__), the later layers are other
\* members, which rendering only reads.
CanvasRendered ==
    LET layers == LayersAfterStr(canvas)
    IN  /\ canvas' = [canvas EXCEPT !.layers = layers]
        /\ components' = [components EXCEPT !.GALLOWS = layers[1]]

\* GameRound._start_turn up to the prompt: the loop condition of
\* GameRound.start holds, the canvas and the word state are output.
StartTurn ==
    /\ pc = "round"
    /\ TurnCondition
    /\ out' = <<Msg("canvas", CanvasStr(canvas)), Msg("word_state", CurrentState(word))>>
    /\ CanvasRendered
    /\ pc' = "prompt_guess"
    /\ UNCHANGED <<reward, penalty, points, ended, used_words, level,
                   layer_stack, word, coefficient, guesses>>
    /\ UNCHANGED unitVars

\* A variant of GameRound._minus_1_life that pops the last layer, pop().
StackAfterPopLast(stack) == SubSeq(stack, 1, Len(stack) - 1)

\* GameRound._minus_1_life: self._layer_stack.pop(0), the stack afterwards.
StackAfterMinus1Life(stack) == Tail(stack)

\* GameRound._minus_1_life: the canvas afterwards, the popped layer added.
Minus1Life(cv, stack) == AddLayers(cv, <<Head(stack)>>)

\* A variant of GameRound._handle_incorrect_guess that never adds YOU_LOST.
CanvasWithoutOverlay(cv, stack) == AddLayers(cv, <<Head(stack)>>)

\* GameRound._handle_incorrect_guess: the canvas afterwards.
CanvasAfterIncorrectGuess(cv, stack) ==
    LET popped == Minus1Life(cv, stack)
    IN  IF Len(StackAfterMinus1Life(stack)) = 0
        THEN AddLayers(popped, <<components.YOU_LOST>>)
        ELSE popped

\* A variant of GameRound._handle_incorrect_guess that penalizes but does
\* not call _minus_1_life: canvas and stack stay as they are.
HandleIncorrectGuessKeepingLife ==
    /\ points' = PenalizeIncorrectGuess(points, coefficient)
    /\ out' = <<Msg("incorrect", "Incorrect guess."), PointsMsg(points')>>
    /\ UNCHANGED <<canvas, layer_stack, word>>

\* GameRound._handle_incorrect_guess
HandleIncorrectGuess ==
    /\ points' = PenalizeIncorrectGuess(points, coefficient)
    /\ out' = <<Msg("incorrect", "Incorrect guess."), PointsMsg(points')>>
    /\ canvas' = CanvasAfterIncorrectGuess(canvas, layer_stack)
    /\ layer_stack' = StackAfterMinus1Life(layer_stack)
    /\ UNCHANGED word

\* GameRound._handle_correct_guess(guess, count)
HandleCorrectGuess(guess, counted) ==
    /\ points' = RewardCorrectGuess(points, counted.count, coefficient)
    /\ out' = <<Msg("correct", <<counted.count, guess>>), PointsMsg(points')>>
    /\ word' = counted.word
    /\ UNCHANGED <<canvas, layer_stack>>

\* GameRound._start_turn from the prompt on: one response to 'Your guess:'.
\* A response a validator fails is answered with its warning and asked again;
\* an accepted one is counted, recorded and handled.
GuessResponseOn(raw) ==
    /\ pc = "prompt_guess"
    /\  LET asked == AskOnce(raw, GuessValidators, NoChoices, guesses)
            guess == asked.response
            counted == WordCount(word, guess)
        IN  IF asked.accepted
            THEN /\ guesses' = guesses \cup {guess}
                 /\ IF counted.count = 0
                    THEN HandleIncorrectGuess
                    ELSE HandleCorrectGuess(guess, counted)
                 /\ pc' = "round"
            ELSE /\ out' = <<Msg("warning", asked.warning)>>
                 /\ UNCHANGED <<pc, points, canvas, layer_stack, word, guesses>>
    /\ UNCHANGED <<reward, penalty, ended, used_words, level, coefficient>>
    /\ UNCHANGED <<components, unitVars>>

GuessResponse == \E raw \in GuessInputs : GuessResponseOn(raw)

\* A variant of GameRound.start whose lost branch does not call Game.end().
FinishRoundWithoutEnd ==
    /\ pc = "round"
    /\ ~(~AllClear(word) /\ Len(layer_stack) # 0)
    /\ IF Len(layer_stack) = 0
       THEN /\ out' = <<Msg("canvas", CanvasStr(canvas)), Msg("word", word.value)>>
            /\ CanvasRendered
       ELSE /\ out' = <<Msg("word_state", CurrentState(word))>>
            /\ UNCHANGED <<canvas, components>>
    /\ pc' = "game_loop"
    /\ UNCHANGED <<reward, penalty, points, ended, used_words, level,
                   layer_stack, word, coefficient, guesses>>
    /\ UNCHANGED unitVars

\* GameRound.start after its loop: a lost round outputs the canvas and the
\* word and ends the game, a won round outputs the word state.
FinishRound ==
    /\ pc = "round"
    /\ ~TurnCondition
    /\ IF lives_left = 0
       THEN /\ ended' = TRUE
            /\ out' = <<Msg("canvas", CanvasStr(canvas)), Msg("word", word.value)>>
                      \o EndOutput(points)
            /\ CanvasRendered
       ELSE /\ out' = <<Msg("word_state", CurrentState(word))>>
            /\ UNCHANGED <<ended, canvas, components>>
    /\ pc' = "game_loop"
    /\ UNCHANGED <<reward, penalty, points, used_words, level,
                   layer_stack, word, coefficient, guesses>>
    /\ UNCHANGED unitVars

\* A variant of the loop of Game._start that asks 'Continue?' after a lost
\* round too.
GameLoopAlwaysAsking ==
    /\ pc = "game_loop"
    /\ pc' = "prompt_continue"
    /\ out' = <<>>
    /\ UNCHANGED <<reward, penalty, points, ended, used_words, level,
                   canvas, layer_stack, word, coefficient, guesses>>
    /\ UNCHANGED <<components, unitVars>>

\* Game._start, the loop condition `not self._ended and ...`: an ended game
\* leaves the loop and skips the final end(); otherwise 'Continue?' is asked.
GameLoop ==
    /\ pc = "game_loop"
    /\ pc' = IF ended THEN "done" ELSE "prompt_continue"
    /\ out' = <<>>
    /\ UNCHANGED <<reward, penalty, points, ended, used_words, level,
                   canvas, layer_stack, word, coefficient, guesses>>
    /\ UNCHANGED <<components, unitVars>>

\* Game._prompt_for_continue_confirmation: the answer is a yes.
IsYes(answer) == answer \in {<<89>>, <<89, 69, 83>>}

\* Game._start: one response to 'Continue?'.  Yes starts a round (asks for the
\* level); no leaves the loop, and the game, not ended, is ended.
ContinueResponseOn(raw) ==
    /\ pc = "prompt_continue"
    /\  LET asked == AskOnce(raw, ChoiceValidators, CONFIRMATION, {})
        IN  IF ~asked.accepted
            THEN /\ out' = <<Msg("warning", asked.warning)>>
                 /\ UNCHANGED <<pc, ended>>
            ELSE IF IsYes(asked.response)
                 THEN /\ out' = <<>>
                      /\ pc' = "prompt_level"
                      /\ UNCHANGED ended
                 ELSE /\ ended' = TRUE
                      /\ out' = EndOutput(points)
                      /\ pc' = "done"
    /\ UNCHANGED <<reward, penalty, points, used_words, level,
                   canvas, layer_stack, word, coefficient, guesses>>
    /\ UNCHANGED <<components, unitVars>>

ContinueResponse == \E raw \in ContinueInputs : ContinueResponseOn(raw)

\* Game.start: a KeyboardInterrupt, raised while the program waits for input,
\* is caught and the game is ended.
Interrupt ==
    /\ pc \in {"prompt_level", "prompt_guess", "prompt_continue"}
    /\ ended' = TRUE
    /\ out' = EndOutput(points)
    /\ pc' = "interrupted"
    /\ UNCHANGED <<reward, penalty, points, used_words, level,
                   canvas, layer_stack, word, coefficient, guesses>>
    /\ UNCHANGED <<components, unitVars>>

Next ==
    \/ Start
    \/ LevelResponse
    \/ PickWord
    \/ StartTurn
    \/ GuessResponse
    \/ FinishRound
    \/ GameLoop
    \/ ContinueResponse
    \/ Interrupt

Spec == Init /\ [][Next]_vars

\* GameRound.start enters _start_turn: the step StartTurn, told by its
\* guard and its change of pc.
TurnStarts ==
    /\ pc = "round"
    /\ TurnCondition
    /\ pc' = "prompt_guess"

\* GameRound._prompt_for_guess returns: some response passes both validators
\* and _start_turn processes it (the accepting step of GuessResponse, told
\* by its guard and its change of pc).
ValidGuessProcessed ==
    /\ pc = "prompt_guess"
    /\ \E raw \in GuessInputs :
        AskOnce(raw, GuessValidators, NoChoices, guesses).accepted
    /\ pc' = "round"

\* GameRound.start leaves its loop: the step FinishRound, told by its guard
\* and its change of pc.
RoundFinishes ==
    /\ pc = "round"
    /\ ~TurnCondition
    /\ pc' = "game_loop"

\* The game with a round that makes progress: the statements of
\* GameRound.start and _start_turn that wait for nothing are executed, and
\* the input callable, asked for a guess, returns a valid one in the end
\* unless the wait is interrupted.
LiveSpec ==
    /\ Spec
    /\ WF_pc(TurnStarts)
    /\ WF_pc(ValidGuessProcessed)
    /\ WF_pc(RoundFinishes)

\* The game in which nothing waits forever: besides the steps of a round,
\* Game._start and _start_round execute their statements, a level and an
\* answer to 'Continue?' that pass validation are given in the end, and the
\* random draw of _start_round hits a word not used yet when there is one.
\* (The steps meant are those of each action that change pc.)
FairSpec ==
    /\ LiveSpec
    /\ WF_pc(Start)
    /\ WF_pc(LevelResponse)
    /\ WF_pc(PickWord)
    /\ WF_pc(GameLoop)
    /\ WF_pc(ContinueResponse)

(* ----------------------------- Layer operations ----------------------- *)

\* The cell values of the layers drawn as inputs: ' ', '\t', 'x', 'y'.
CellValues == {<<32>>, <<9>>, <<120>>, <<121>>}

\* The shapes with at least one and at most MaxCells cells.
Shapes == {s \in (1..MaxCells) \X (1..MaxCells) : s[1] * s[2] <= MaxCells}

\* Every layer Layer(grid) builds from a grid of one of the shapes.
LayerInputs ==
    UNION {{LayerNew(grid) : grid \in [1..s[1] -> [1..s[2] -> CellValues]]} : s \in Shapes}

\* The game stands still while layers are operated on.
GameIdle ==
    /\ pc = "idle"
    /\ reward = 2
    /\ penalty = -1
    /\ points = 0
    /\ ended = FALSE
    /\ used_words = {}
    /\ level = <<>>
    /\ canvas = None
    /\ layer_stack = <<>>
    /\ word = None
    /\ coefficient = 0
    /\ guesses = {}
    /\ out = <<>>
    /\ components = Component

LayerInit ==
    /\ GameIdle
    /\ self_layer \in LayerInputs
    /\ other_layer \in LayerInputs
    /\ result_layer = None
    /\ layer_op = "none"
    /\ third_layer = None
    /\ regrouped_layer = None
    /\ returned = "none"
    /\ CanvasIdle
    /\ ConstructIdle
    /\ BuildIdle
    /\ WordIdle
    /\ AskIdle
    /\ ChoiceIdle
    /\ CacheIdle

\* self + other: a new layer (or the error) is returned.
LayerAdd ==
    /\ LET effect == AddEffect(self_layer, other_layer)
       IN  /\ self_layer' = effect.self
           /\ other_layer' = effect.other
           /\ result_layer' = effect.result
           /\ returned' = effect.returned
    /\ layer_op' = "add"
    /\ third_layer' = None
    /\ regrouped_layer' = None
    /\ UNCHANGED <<gameVars, canvasVars, constructVars, buildVars, wordVars, askVars, choiceVars, cacheVars>>

\* self += other: self is changed in place and returned; on the error
\* nothing has been assigned.
LayerIAdd ==
    /\ LET effect == IAddEffect(self_layer, other_layer)
       IN  /\ self_layer' = effect.self
           /\ other_layer' = effect.other
           /\ result_layer' = effect.result
           /\ returned' = effect.returned
    /\ layer_op' = "iadd"
    /\ third_layer' = None
    /\ regrouped_layer' = None
    /\ UNCHANGED <<gameVars, canvasVars, constructVars, buildVars, wordVars, askVars, choiceVars, cacheVars>>

\* The third operands of a double merge: the layers of the shape of layer
\* with cells of a space, 'x' or 'y'.
ThirdInputs(layer) ==
    {LayerNew(grid) :
        grid \in [1..layer.height -> [1..layer.width -> CellValues \ {<<9>>}]]}

\* (self + other) + third and self + (other + third), for three layers of
\* one shape, applied to the operands as they were drawn; each + returns a
\* new layer, so the operands stay.
LayerAddThree ==
    /\ layer_op = "none"
    /\ self_layer.height = other_layer.height
    /\ self_layer.width = other_layer.width
    /\ \E third \in ThirdInputs(self_layer) :
        LET left == Add(self_layer, other_layer)
            right == Add(other_layer, third)
        IN  /\ third_layer' = third
            /\ result_layer' = IF IsError(left) THEN left ELSE Add(left, third)
            /\ regrouped_layer' = IF IsError(right) THEN right
                                  ELSE Add(self_layer, right)
    /\ returned' = "new"
    /\ layer_op' = "add3"
    /\ UNCHANGED <<self_layer, other_layer>>
    /\ UNCHANGED <<gameVars, canvasVars, constructVars, buildVars, wordVars, askVars, choiceVars, cacheVars>>

LayerNext ==
    \/ LayerAdd
    \/ LayerIAdd
    \/ LayerAddThree

LayerSpec == LayerInit /\ [][LayerNext]_vars

(* ------------------------- Canvas operations -------------------------- *)
(* A canvas is constructed and then given layers and rendered.             *)

\* The layers a canvas is made from and given: four of one row and two
\* cells, "x ", " y", "yx" and a tab with a space, and two of two rows and
\* one cell, "x" over " " and " " over "y".
CanvasLayerInputs ==
    {LayerNew(<<row>>) : row \in {<<<<120>>, <<32>>>>, <<<<32>>, <<121>>>>,
                                  <<<<121>>, <<120>>>>, <<<<9>>, <<32>>>>}}
    \cup {LayerNew(<<<<column[1]>>, <<column[2]>>>>) :
            column \in {<<<<120>>, <<32>>>>, <<<<32>>, <<121>>>>}}

\* The heights and widths Canvas(height, width) is called with.
CanvasSizes == (1..MaxCells) \X (1..MaxCells)

\* Canvas(height, width) or Canvas.from_layer(layer).
CanvasInit ==
    /\ GameIdle
    /\ LayerIdle
    /\ ConstructIdle
    /\ \/ /\ \E size \in CanvasSizes : canvas_self = CanvasNew(size[1], size[2])
          /\ layers_arg = <<>>
          /\ canvas_op = "init"
       \/ /\ \E layer \in CanvasLayerInputs :
                /\ canvas_self = CanvasFromLayer(layer)
                /\ layers_arg = <<layer>>
          /\ canvas_op = "from_layer"
    /\ canvas_result = None
    /\ BuildIdle
    /\ WordIdle
    /\ AskIdle
    /\ ChoiceIdle
    /\ CacheIdle

\* canvas.add_layers(layers...) with up to MaxBatch layers, as long as the
\* canvas would not hold more than MaxLayers.
CanvasAddLayers ==
    /\ \E n \in 0..MaxBatch : \E layers \in [1..n -> CanvasLayerInputs] :
        /\ Len(canvas_self.layers) + n <= MaxLayers
        /\ LET effect == AddLayersEffect(canvas_self, layers)
           IN  /\ canvas_self' = effect.canvas
               /\ canvas_result' = effect.result
        /\ layers_arg' = layers
    /\ canvas_op' = "add_layers"
    /\ UNCHANGED <<gameVars, layerVars, constructVars, buildVars, wordVars, askVars, choiceVars, cacheVars>>

\* str(canvas)
CanvasRender ==
    /\ canvas_result' = CanvasStr(canvas_self)
    /\ canvas_self' = [canvas_self EXCEPT !.layers = LayersAfterStr(canvas_self)]
    /\ layers_arg' = <<>>
    /\ canvas_op' = "str"
    /\ UNCHANGED <<gameVars, layerVars, constructVars, buildVars, wordVars, askVars, choiceVars, cacheVars>>

CanvasNext ==
    \/ CanvasAddLayers
    \/ CanvasRender

CanvasSpec == CanvasInit /\ [][CanvasNext]_vars

(* ------------------------- Layer construction ------------------------- *)
(* Layer(argument) for rows of cells that may be malformed.                 *)

\* The cells of the rows: 'x', a space, the empty str and 'xy'.
CellStrings == {<<120>>, <<32>>, <<>>, <<120, 121>>}

\* The grids of m rows with at most n cells in all.
RECURSIVE GridsOf(_, _)
GridsOf(m, n) ==
    IF m = 0 THEN {<<>>}
    ELSE UNION {{<<row>> \o rest : row \in [1..k -> CellStrings],
                                   rest \in GridsOf(m - 1, n - k)} : k \in 0..n}

\* The arguments of Layer(...): up to MaxCells rows with up to MaxCells cells
\* in all; no rows, rows of unequal widths and rows without cells are among
\* them.
GridInputs == UNION {GridsOf(m, MaxCells) : m \in 0..MaxCells}

ConstructInit ==
    /\ GameIdle
    /\ LayerIdle
    /\ CanvasIdle
    /\ argument \in GridInputs
    /\ constructed = None
    /\ BuildIdle
    /\ WordIdle
    /\ AskIdle
    /\ ChoiceIdle
    /\ CacheIdle

\* Layer(argument)
LayerConstruct ==
    /\ constructed = None
    /\ constructed' = LayerNew(argument)
    /\ UNCHANGED argument
    /\ UNCHANGED <<gameVars, layerVars, canvasVars, buildVars, wordVars, askVars, choiceVars, cacheVars>>

ConstructNext == LayerConstruct

ConstructSpec == ConstructInit /\ [][ConstructNext]_vars

(* --------------------------- Layer building --------------------------- *)
(* A layer is built by the constructor or a classmethod, then copied and    *)
(* merged with other layers any number of times.                            *)

\* The characters of the texts passed to Layer.from_text: 'x', a space and
\* a line break.
TextCharacters == {120, 32, 10}

\* The texts of at most MaxCells characters.
TextInputs == UNION {[1..n -> TextCharacters] : n \in 0..MaxCells}

\* The widths passed to Layer.from_text; -1 stands for None.
TextWidths == {-1} \cup (1..MaxCells)

\* The cells passed to Layer.from_sequence: up to MaxCells + 1 cells of 'x'
\* or a space.
SequenceInputs == UNION {[1..n -> {<<120>>, <<32>>}] : n \in 0..(MaxCells + 1)}

\* The right operands of a merge with layer: the layers of its shape whose
\* first k cells are 'y' and whose other cells are spaces.
MergeInputs(layer) ==
    {LayerNew([r \in 1..layer.height |-> [c \in 1..layer.width |->
                IF (r - 1) * layer.width + c <= k THEN <<121>> ELSE <<32>>]]) :
        k \in 0..(layer.height * layer.width)}

\* built is a layer: something was built and the call did not raise.
IsBuilt == built # None /\ ~IsError(built)

BuildInit ==
    /\ GameIdle
    /\ LayerIdle
    /\ CanvasIdle
    /\ ConstructIdle
    /\ built = None
    /\ built_by = "none"
    /\ WordIdle
    /\ AskIdle
    /\ ChoiceIdle
    /\ CacheIdle

\* Layer(grid)
BuildLayer ==
    /\ built' \in LayerInputs
    /\ built_by' = "Layer"
    /\ UNCHANGED <<gameVars, layerVars, canvasVars, constructVars, wordVars, askVars, choiceVars, cacheVars>>

\* Layer.from_text(text, width)
BuildFromText ==
    /\ \E text \in TextInputs, width \in TextWidths :
        built' = FromText(text, width)
    /\ built_by' = "from_text"
    /\ UNCHANGED <<gameVars, layerVars, canvasVars, constructVars, wordVars, askVars, choiceVars, cacheVars>>

\* Layer.from_sequence(cells, width)
BuildFromSequence ==
    /\ \E cells \in SequenceInputs, width \in 0..MaxCells :
        built' = FromSequence(cells, width)
    /\ built_by' = "from_sequence"
    /\ UNCHANGED <<gameVars, layerVars, canvasVars, constructVars, wordVars, askVars, choiceVars, cacheVars>>

\* built.copy()
BuildCopy ==
    /\ IsBuilt
    /\ built' = Copy(built)
    /\ built_by' = "copy"
    /\ UNCHANGED <<gameVars, layerVars, canvasVars, constructVars, wordVars, askVars, choiceVars, cacheVars>>

\* built + other: the layer returned is the one looked at from here on.
BuildAdd ==
    /\ IsBuilt
    /\ \E other \in MergeInputs(built) :
        built' = AddEffect(built, other).result
    /\ built_by' = "add"
    /\ UNCHANGED <<gameVars, layerVars, canvasVars, constructVars, wordVars, askVars, choiceVars, cacheVars>>

\* built += other
BuildIAdd ==
    /\ IsBuilt
    /\ \E other \in MergeInputs(built) :
        built' = IAddEffect(built, other).self
    /\ built_by' = "iadd"
    /\ UNCHANGED <<gameVars, layerVars, canvasVars, constructVars, wordVars, askVars, choiceVars, cacheVars>>

BuildNext ==
    \/ BuildLayer
    \/ BuildFromText
    \/ BuildFromSequence
    \/ BuildCopy
    \/ BuildAdd
    \/ BuildIAdd

BuildSpec == BuildInit /\ [][BuildNext]_vars

(* --------------------------- Word operations -------------------------- *)
(* A Word is constructed from a secret and then asked to count guesses.     *)

\* The characters of the secrets: 'A', 'a', 'B' and U+00DF (sharp s).
SecretCharacters == {65, 97, 66, 223}

\* The secrets Word(...) is constructed with: the non-empty strs of at most
\* MaxWordLen characters.
SecretInputs == UNION {[1..n -> SecretCharacters] : n \in 1..MaxWordLen}

\* The guesses passed to Word.count: 'A', 'a', 'B', 'S' and U+00DF.
WordGuessInputs == {<<65>>, <<97>>, <<66>>, <<83>>, <<223>>}

\* Init: word_self = Word(secret)
WordInit ==
    /\ GameIdle
    /\ LayerIdle
    /\ CanvasIdle
    /\ ConstructIdle
    /\ BuildIdle
    /\ secret \in SecretInputs
    /\ word_self = WordNew(secret)
    /\ word_guess = <<>>
    /\ word_count = None
    /\ word_counts = <<>>
    /\ AskIdle
    /\ ChoiceIdle
    /\ CacheIdle

\* word_self.count(guess): what the call returned or raised is kept in
\* word_count and, under the guess, in word_counts.
WordCountGuess ==
    /\ \E guess \in WordGuessInputs :
        LET counted == WordCount(word_self, guess)
            outcome == IF IsError(counted) THEN Raise(counted.error)
                       ELSE [count |-> counted.count]
        IN  /\ word_self' = counted.word
            /\ word_guess' = guess
            /\ word_count' = outcome
            /\ word_counts' = [g \in DOMAIN word_counts \cup {guess} |->
                                  IF g = guess THEN outcome ELSE word_counts[g]]
    /\ UNCHANGED secret
    /\ UNCHANGED <<gameVars, layerVars, canvasVars, constructVars, buildVars, askVars, choiceVars, cacheVars>>

WordNext == WordCountGuess

WordSpec == WordInit /\ [][WordNext]_vars

(* ------------------------ Conversation operations --------------------- *)
(* Conversation.ask is called once; the input callable is called until a    *)
(* response passes the validators.                                          *)

\* The letters guessed before, which _not_previously_guessed looks at.
AskPrevious == {<<65>>}

\* What the input callable returns: 'a', 'b', 'y', '1' and 'no'.
AskInputs == {<<97>>, <<98>>, <<121>>, <<49>>, <<110, 111>>}

\* The predicates passed in `until` when there are no choices: the two
\* Validators of a guess.
GuessPredicates ==
    {Validator("_response_is_ascii_letter", "Invalid guess. Please input a letter."),
     Validator("_not_previously_guessed",
               "You have already guessed this letter. Please try again.")}

\* The values of `until`: None, one bare predicate, and the iterables of at
\* most two predicates.
UntilInputs(predicates) ==
    {Until("none", <<>>), Until("one", <<Bare("_response_is_ascii_letter")>>)}
    \cup {Until("many", value) :
            value \in UNION {[1..n -> predicates] : n \in 0..2}}

\* The calls of ask: without choices and with the predicates of a guess, and
\* with the choices Y / N and those predicates or the bare check of the
\* choice.
AskArguments ==
    {<<NoChoices, until>> : until \in UntilInputs(GuessPredicates)}
    \cup {<<CONFIRMATION, until>> :
            until \in UntilInputs(GuessPredicates
                                  \cup {Bare("_response_is_valid_choice")})}

\* Init: ask(question, choices, until = ...) has built the validator list
\* and entered _ask; nothing has been prompted for yet.
AskInit ==
    /\ GameIdle
    /\ LayerIdle
    /\ CanvasIdle
    /\ ConstructIdle
    /\ BuildIdle
    /\ WordIdle
    /\ \E arguments \in AskArguments :
        /\ ask_choices = arguments[1]
        /\ ask_validators = AskValidators(arguments[1], arguments[2])
    /\ ask_pc = "prompt"
    /\ ask_prompts = 0
    /\ ask_raws = <<>>
    /\ ask_calls = <<>>
    /\ ask_replies = <<>>
    /\ ask_returned = None
    /\ ChoiceIdle
    /\ CacheIdle

\* One pass of _ask: _get_response(prompt) calls the input callable, the
\* validators are run on the response, and either the warning of the failing
\* validator is replied and the loop prompts again, or the response is
\* returned.
AskRespond ==
    /\ ask_pc = "prompt"
    /\ ask_prompts < MaxPrompts
    /\ \E raw \in AskInputs :
        LET asked == AskOnce(raw, ask_validators, ask_choices, AskPrevious)
        IN  /\ ask_prompts' = ask_prompts + 1
            /\ ask_raws' = Append(ask_raws, raw)
            /\ ask_calls' = ValidatorsCalled(ask_validators, 1, asked.response,
                                             ask_choices, AskPrevious)
            /\ IF asked.accepted
               THEN /\ ask_pc' = "returned"
                    /\ ask_returned' = [value |-> asked.response]
                    /\ UNCHANGED ask_replies
               ELSE /\ ask_pc' = "prompt"
                    /\ ask_replies' = Append(ask_replies, asked.warning)
                    /\ UNCHANGED ask_returned
    /\ UNCHANGED <<ask_choices, ask_validators>>
    /\ UNCHANGED <<gameVars, layerVars, canvasVars, constructVars, buildVars, wordVars, choiceVars, cacheVars>>

AskNext == AskRespond

AskSpec == AskInit /\ [][AskNext]_vars

(* ------------------------- ChoiceList operations ---------------------- *)
(* A ChoiceList is constructed from descriptors and then looked up.         *)

\* The descriptors a list is constructed from:
\*   Y = ('Yes', {'Yes'}, 'YES'),  n = ('No', {'no', 'Nay'}, 'NO'),
\*   ab = ('Foobar', {'ab'}, 'x'), q = ('Quit', set(), 'quit').
\* No shortcut or alias of one is, in any case, a shortcut or alias of
\* another.
DescriptorInputs ==
    {Descriptor(<<89>>, "Yes", {<<89, 101, 115>>}, <<89, 69, 83>>),
     Descriptor(<<110>>, "No", {<<110, 111>>, <<78, 97, 121>>}, <<78, 79>>),
     Descriptor(<<97, 98>>, "Foobar", {<<97, 98>>}, <<120>>),
     Descriptor(<<113>>, "Quit", {}, <<113, 117, 105, 116>>)}

\* The keyword arguments of ChoiceList(...): up to MaxChoices of the
\* descriptors, each at most once, in any order.
KwargsInputs ==
    UNION {{kwargs \in [1..n -> DescriptorInputs] :
                \A i, j \in 1..n : kwargs[i] = kwargs[j] => i = j} :
           n \in 0..MaxChoices}

\* str.swapcase() on one ASCII character.
SwapCase(c) ==
    IF c >= 97 /\ c <= 122 THEN c - 32
    ELSE IF c >= 65 /\ c <= 90 THEN c + 32
    ELSE c

\* The strs that differ from s in the case of letters only, s among them.
RECURSIVE CaseVariants(_)
CaseVariants(s) ==
    IF s = <<>> THEN {<<>>}
    ELSE {<<c>> \o rest : c \in {s[1], SwapCase(s[1])}, rest \in CaseVariants(Tail(s))}

\* The shortcut and the aliases of a descriptor, as given.
KeysOf(d) == {d.shortcut} \cup d.aliases

\* The items looked up in a list constructed from kwargs: its shortcuts and
\* aliases in every case, and 'z', 'NOPE' and '', which are none of them.
ItemInputs(kwargs) ==
    UNION {UNION {CaseVariants(key) : key \in KeysOf(kwargs[i])} : i \in 1..Len(kwargs)}
    \cup {<<122>>, <<78, 79, 80, 69>>, <<>>}

\* Init: choice_self = ChoiceList(**choice_kwargs)
ChoiceInit ==
    /\ GameIdle
    /\ LayerIdle
    /\ CanvasIdle
    /\ ConstructIdle
    /\ BuildIdle
    /\ WordIdle
    /\ AskIdle
    /\ choice_kwargs \in KwargsInputs
    /\ choice_self = ChoiceListNew(choice_kwargs)
    /\ choice_item = <<>>
    /\ choice_found = FALSE
    /\ choice_got = None
    /\ CacheIdle

\* `item in choice_self` and `choice_self[item]`, for one item.
ChoiceLookup ==
    /\ \E item \in ItemInputs(choice_kwargs) :
        /\ choice_item' = item
        /\ choice_found' = ChoiceListContains(choice_self, item)
        /\ choice_got' = ChoiceListGetItem(choice_self, item)
    /\ UNCHANGED <<choice_kwargs, choice_self>>
    /\ UNCHANGED <<gameVars, layerVars, canvasVars, constructVars, buildVars, wordVars, askVars, cacheVars>>

ChoiceNext == ChoiceLookup

ChoiceSpec == ChoiceInit /\ [][ChoiceNext]_vars

(* -------------------------- WordList operations ----------------------- *)
(* WordList(filename) and WordList.from_level(level) are called in any      *)
(* order; _instances is an attribute of the class, shared by the calls.     *)

\* The file names of the model: the four files and one that does not exist.
FileNames == ExistingFiles \cup {InWordListDirectory("none.txt")}

\* The arguments of WordList(...): a path to easy.txt, the same as a str,
\* medium.txt and the missing file as strs.
FileNameInputs ==
    {FileName("Path", InWordListDirectory("easy.txt")),
     FileName("str", InWordListDirectory("easy.txt")),
     FileName("str", InWordListDirectory("medium.txt")),
     FileName("str", InWordListDirectory("none.txt"))}

\* The arguments of from_level: Level.EASY, 'easy', 'MEDIUM', 'HarD', 'hard'
\* and 'nope'.
FromLevelInputs ==
    {EASY, <<101, 97, 115, 121>>, MEDIUM, <<72, 97, 114, 68>>,
     <<104, 97, 114, 100>>, <<110, 111, 112, 101>>}

\* Init: the module has been imported; _instances is empty and no file has
\* been read.
CacheInit ==
    /\ GameIdle
    /\ LayerIdle
    /\ CanvasIdle
    /\ ConstructIdle
    /\ BuildIdle
    /\ WordIdle
    /\ AskIdle
    /\ ChoiceIdle
    /\ instances = <<>>
    /\ reads = [name \in FileNames |-> 0]
    /\ calls = <<>>

\* WordList(filename)
CallWordList ==
    /\ Len(calls) < MaxCalls
    /\ \E filename \in FileNameInputs :
        LET effect == WordListNew(instances, reads, filename)
        IN  /\ instances' = effect.instances
            /\ reads' = effect.reads
            /\ calls' = Append(calls, [call |-> "WordList", level |-> <<>>,
                                       filename |-> filename.text,
                                       result |-> effect.result])
    /\ UNCHANGED <<gameVars, layerVars, canvasVars, constructVars, buildVars, wordVars, askVars, choiceVars>>

\* WordList.from_level(level)
CallFromLevel ==
    /\ Len(calls) < MaxCalls
    /\ \E lvl \in FromLevelInputs :
        LET effect == FromLevel(instances, reads, lvl)
        IN  /\ instances' = effect.instances
            /\ reads' = effect.reads
            /\ calls' = Append(calls, [call |-> "from_level", level |-> lvl,
                                       filename |-> "",
                                       result |-> effect.result])
    /\ UNCHANGED <<gameVars, layerVars, canvasVars, constructVars, buildVars, wordVars, askVars, choiceVars>>

CacheNext ==
    \/ CallWordList
    \/ CallFromLevel

CacheSpec == CacheInit /\ [][CacheNext]_vars

(* ----------------------------- properties ----------------------------- *)

\* A round has been constructed (its fields hold the latest round).
HasRound == canvas # None

\* The round's turn loop is running.
RoundRunning == pc \in {"round", "prompt_guess"}

\* The letter guess occurs in the secret w.
Occurs(guess, w) == \E i \in 1..Len(w.value) : w.value[i] = guess[1]

\* The number of positions of the secret w that hold the letter guess.
Occurrences(guess, w) == Cardinality({i \in 1..Len(w.value) : w.value[i] = guess[1]})

\* The guesses of the round that do not occur in its word.
WrongGuesses == {g \in guesses : ~Occurs(g, word)}

\* The distinct characters of the round's word.
WordCharacters == {<<word.value[i]>> : i \in 1..Len(word.value)}

\* The round's word holds letters 'A'..'Z' only.
LettersOnly == \A i \in 1..Len(word.value) : word.value[i] \in 65..90

\* This step processes the accepted guess g.
ProcessesGuess(g) ==
    /\ pc = "prompt_guess"
    /\ pc' = "round"
    /\ g \notin guesses
    /\ guesses' = guesses \cup {g}

\* The number of places of the sequence that hold the layer.
CountOf(layer, layers) == Cardinality({i \in 1..Len(layers) : layers[i] = layer})

(* C1: In a round, lives_left (the number of layers in the reserve stack)   *)
(* never increases and changes only when an incorrect guess is processed:   *)
(* that step removes exactly the head of the stack and appends it to the    *)
(* canvas after the layers already there.  Every other step of the round, a *)
(* correct guess included, leaves lives_left, the stack and the canvas as   *)
(* they are.                                                                *)
C1_LivesFollowIncorrectGuesses ==
    [][RoundRunning =>
        IF \E g \in Letters : ProcessesGuess(g) /\ ~Occurs(g, word)
        THEN /\ lives_left' = lives_left - 1
             /\ layer_stack' = Tail(layer_stack)
             /\ Len(canvas'.layers) > Len(canvas.layers)
             /\ SubSeq(canvas'.layers, 1, Len(canvas.layers) + 1)
                    = canvas.layers \o <<Head(layer_stack)>>
        ELSE /\ lives_left' = lives_left
             /\ layer_stack' = layer_stack
             /\ canvas' = canvas]_vars

\* C1 witness: two lives are lost and a correct guess has been processed.
C1_Witness ==
    /\ pc = "round"
    /\ lives_left = 4
    /\ \E g \in guesses : Occurs(g, word)

(* C2: For a round whose word has at least one character: never are both   *)
(* lives_left = 0 and the word fully revealed; while a turn is in progress  *)
(* neither holds; and when the round has stopped exactly one holds, the     *)
(* game being ended exactly in the lost case.                               *)
C2_RoundStopsWonOrLost ==
    (HasRound /\ Len(word.value) >= 1) =>
        /\ ~(lives_left = 0 /\ AllClear(word))
        /\ (pc = "prompt_guess" => lives_left # 0 /\ ~AllClear(word))
        /\ (pc = "game_loop" =>
                /\ (lives_left = 0 \/ AllClear(word))
                /\ (ended <=> lives_left = 0))

\* C2 witness: a round is won after lives were lost.
C2_Witness ==
    /\ pc = "game_loop"
    /\ HasRound
    /\ AllClear(word)
    /\ lives_left \in 1..5
    /\ Len(word.value) >= 1

(* C3: lives_left is 6 minus the number of incorrect guesses of the round,  *)
(* the canvas holds the gallows plus one layer per incorrect guess, and     *)
(* after the sixth incorrect guess the stack is empty, the canvas holds the *)
(* 8 layers gallows, six body parts, you-lost, no turn follows, and the     *)
(* round ends the game.                                                     *)
C3_SixIncorrectGuessesLose ==
    HasRound =>
        LET wrong == Cardinality(WrongGuesses)
        IN  /\ lives_left = 6 - wrong
            /\ (wrong < 6 => Len(canvas.layers) = 1 + wrong)
            /\ (wrong = 0 => canvas.layers = <<GALLOWS>>)
            /\ (wrong = 6 =>
                    /\ lives_left = 0
                    /\ Len(canvas.layers) = 8
                    /\ canvas.layers = <<GALLOWS, HEAD, TRUNK, LEFT_ARM, RIGHT_ARM,
                                         LEFT_LEG, RIGHT_LEG, YOU_LOST>>
                    /\ pc \in {"round", "game_loop", "done"}
                    /\ (pc \in {"game_loop", "done"} => ended))

\* C3 witness: a round lost by six incorrect guesses, the program finished.
C3_Witness ==
    /\ pc = "done"
    /\ HasRound
    /\ Cardinality(WrongGuesses) = 6
    /\ lives_left = 0

(* C4: In a round whose word holds letters only and in which no incorrect   *)
(* guess was made, lives_left is 6, the canvas holds the gallows only, the  *)
(* game is not ended, the word is fully revealed exactly when every         *)
(* distinct letter of it has been guessed, and then no further turn is      *)
(* started: the round ends as Won.                                          *)
C4_AllLettersGuessedWins ==
    (HasRound /\ pc \in {"round", "prompt_guess", "game_loop"}
        /\ LettersOnly /\ WrongGuesses = {}) =>
        /\ lives_left = 6
        /\ canvas.layers = <<GALLOWS>>
        /\ ~ended
        /\ (AllClear(word) <=> WordCharacters \subseteq guesses)
        /\ (WordCharacters \subseteq guesses => pc # "prompt_guess")
        /\ (pc = "game_loop" => AllClear(word))

\* C4 witness: the word "ABA" is won with the guesses A and B alone.
C4_Witness ==
    /\ pc = "game_loop"
    /\ HasRound
    /\ word.value = <<65, 66, 65>>
    /\ guesses = {<<65>>, <<66>>}
    /\ AllClear(word)
    /\ ~ended

(* C5: Every guess in the guessed set is one letter 'A'..'Z'.  A response   *)
(* to the guess prompt that, uppercased, is one such letter not yet in the  *)
(* set is accepted: the set gains exactly that letter and the turn goes on. *)
(* Any other response is rejected: the prompt stays, and the word, the      *)
(* lives, the canvas, the points and the set are unchanged.  The set        *)
(* changes in no other step of a round.                                     *)
C5_OnlyNewLettersAreProcessed ==
    /\ [](\A g \in guesses : Len(g) = 1 /\ g[1] \in 65..90)
    /\ [][\A raw \in GuessInputs : GuessResponseOn(raw) =>
            LET g == StrUpper(raw)
            IN  IF Len(raw) = 1 /\ g[1] \in 65..90 /\ g \notin guesses
                THEN /\ guesses' = guesses \cup {g}
                     /\ Cardinality(guesses') = Cardinality(guesses) + 1
                     /\ pc' = "round"
                ELSE /\ pc' = "prompt_guess"
                     /\ UNCHANGED <<word, layer_stack, canvas, points, guesses>>]_vars
    /\ [][guesses' # guesses =>
            \/ \E g \in Letters : ProcessesGuess(g)
            \/ pc = "pick_word" /\ guesses' = {}]_vars

\* C5 witness: a repeated guess has just been rejected.
C5_Witness ==
    /\ pc = "prompt_guess"
    /\ Cardinality(guesses) >= 2
    /\ Len(out) = 1
    /\ out[1].kind = "warning"
    /\ out[1].arg = "You have already guessed this letter. Please try again."

(* C6 as stated: a processed guess with n > 0 occurrences adds              *)
(* reward * n * coefficient to the points, one with none adds               *)
(* penalty * coefficient.                                                   *)
C6_PointsAreAdded ==
    [][\A g \in Letters : ProcessesGuess(g) =>
        points' = points + (IF Occurs(g, word)
                            THEN reward * Occurrences(g, word) * coefficient
                            ELSE penalty * coefficient)]_vars

(* C6, amended: the points after a processed guess are the larger of 0 and  *)
(* the points before plus reward * n * coefficient (n > 0 occurrences) or   *)
(* plus penalty * coefficient (no occurrence).                              *)
C6_PointsAreAddedAndClamped ==
    [][\A g \in Letters : ProcessesGuess(g) =>
        LET sum == points + (IF Occurs(g, word)
                             THEN reward * Occurrences(g, word) * coefficient
                             ELSE penalty * coefficient)
        IN  points' = IF sum < 0 THEN 0 ELSE sum]_vars

\* C6 witness: after a correct guess, incorrect guesses have used up the points.
C6_Witness ==
    /\ pc = "round"
    /\ Len(out) = 2
    /\ out[1].kind = "incorrect"
    /\ points = 0
    /\ \E g \in guesses : Occurs(g, word) /\ Occurrences(g, word) = 2

(* C7: The points of the game are never negative.                           *)
C7_PointsNeverNegative == points >= 0

\* C7 witness: an incorrect guess at coefficient 4 has left the points at 0.
C7_Witness ==
    /\ pc = "round"
    /\ coefficient = 4
    /\ Len(out) = 2
    /\ out[1].kind = "incorrect"
    /\ out[2].kind = "points"
    /\ out[2].arg = 0
    /\ points = 0

(* C8: The canvas holds YOU_LOST exactly when lives_left is 0, once and as  *)
(* its last layer; it is added by the very step of the incorrect guess that *)
(* empties the stack.  The step after that is the end of the round: it      *)
(* outputs the rendering of that canvas and then the secret word, and sets  *)
(* the ended flag.  No other step outputs the secret word.                  *)
C8_LossOverlayAndReveal ==
    /\ [](HasRound =>
            /\ CountOf(YOU_LOST, canvas.layers) = (IF lives_left = 0 THEN 1 ELSE 0)
            /\ (lives_left = 0 => canvas.layers[Len(canvas.layers)] = YOU_LOST))
    /\ [][(pc = "prompt_guess" /\ lives_left' = 0) =>
            canvas'.layers = canvas.layers \o <<Head(layer_stack), YOU_LOST>>]_vars
    /\ [][(pc = "round" /\ lives_left = 0) =>
            /\ pc' = "game_loop"
            /\ ended'
            /\ canvas' = canvas
            /\ Len(out') >= 2
            /\ out'[1].kind = "canvas"
            /\ out'[1].arg = CanvasStr(canvas)
            /\ out'[2].kind = "word"
            /\ out'[2].arg = word.value]_vars
    /\ [][(\E i \in 1..Len(out') : out'[i].kind = "word") =>
            pc = "round" /\ lives_left = 0]_vars

\* C8 witness: a lost round has just output the canvas and the word.
C8_Witness ==
    /\ pc = "game_loop"
    /\ lives_left = 0
    /\ ended
    /\ Len(out) >= 2
    /\ out[2].kind = "word"

(* C9: 'Continue?' is asked only after a won round and with the game not    *)
(* ended; after a lost round the program only finishes.  A round after the  *)
(* first is started only from the continue prompt and after a won round: an *)
(* answer of Y or YES (in any case) asks for the next level, an answer of N *)
(* or NO ends the game, any other answer is asked again.                    *)
C9_NextRoundOnlyAfterWinAndYes ==
    /\ [](pc = "prompt_continue" => lives_left # 0 /\ AllClear(word) /\ ~ended)
    /\ []((HasRound /\ lives_left = 0) => pc \in {"round", "game_loop", "done"})
    /\ [][(pc' = "prompt_level" /\ pc \notin {"start", "prompt_level"}) =>
            pc = "prompt_continue"]_vars
    /\ [][(pc = "pick_word" /\ pc' = "round" /\ used_words # {}) =>
            lives_left # 0 /\ AllClear(word) /\ ~ended]_vars
    /\ [][\A raw \in ContinueInputs : ContinueResponseOn(raw) =>
            LET answer == StrUpper(raw)
            IN  IF answer \in {<<89>>, <<89, 69, 83>>}
                THEN pc' = "prompt_level" /\ ~ended'
                ELSE IF answer \in {<<78>>, <<78, 79>>}
                     THEN pc' = "done" /\ ended'
                     ELSE pc' = "prompt_continue" /\ ~ended']_vars

\* C9 witness: a turn of a second round.
C9_Witness ==
    /\ pc = "prompt_guess"
    /\ Cardinality(used_words) = 2
    /\ guesses # {}

(* C10: After self + other for layers of equal height and width, the       *)
(* result has that height and width and, at every cell (r, c), the value    *)
(* of other at (r, c) if that value is not whitespace and the value of self *)
(* at (r, c) otherwise.                                                     *)
C10_MergeTakesOpaqueCellsOfOther ==
    (layer_op = "add" /\ self_layer.height = other_layer.height
        /\ self_layer.width = other_layer.width) =>
        /\ ~IsError(result_layer)
        /\ result_layer.height = self_layer.height
        /\ result_layer.width = self_layer.width
        /\ \A r \in 0..(self_layer.height - 1) : \A c \in 0..(self_layer.width - 1) :
            GetItem(result_layer, r, c).value =
                IF ~StripsToEmpty(GetItem(other_layer, r, c).value)
                THEN GetItem(other_layer, r, c).value
                ELSE GetItem(self_layer, r, c).value

\* C10 witness: a merge in which one cell of other covers a different value
\* of self and a whitespace cell of other lets a value of self through.
C10_Witness ==
    /\ layer_op = "add"
    /\ ~IsError(result_layer)
    /\ Len(self_layer.cells) = 2
    /\ \E i, j \in 1..2 :
        /\ ~IsTransparent(other_layer.cells[i])
        /\ ~IsTransparent(self_layer.cells[i])
        /\ self_layer.cells[i].value # other_layer.cells[i].value
        /\ result_layer.cells[i].value = other_layer.cells[i].value
        /\ IsTransparent(other_layer.cells[j])
        /\ ~IsTransparent(self_layer.cells[j])
        /\ result_layer.cells[j].value = self_layer.cells[j].value

\* The two operands of the layer operations have one shape.
SameShape ==
    /\ self_layer.height = other_layer.height
    /\ self_layer.width = other_layer.width

(* C11: For layers self, other and third of one shape, (self + other) +     *)
(* third and self + (other + third) are both layers, and they are equal as  *)
(* Layer.__eq__ compares them.                                              *)
C11_MergeIsAssociative ==
    layer_op = "add3" =>
        /\ ~IsError(result_layer)
        /\ ~IsError(regrouped_layer)
        /\ LayerEq(result_layer, regrouped_layer)

\* C11 witness: a double merge of two-cell layers in which the third layer
\* covers a different value of other at one cell and lets a value of other,
\* which covers a different value of self, through at the other cell.
C11_Witness ==
    /\ layer_op = "add3"
    /\ ~IsError(result_layer)
    /\ Len(self_layer.cells) = 2
    /\ \E i, j \in 1..2 :
        /\ ~IsTransparent(third_layer.cells[i])
        /\ ~IsTransparent(other_layer.cells[i])
        /\ third_layer.cells[i].value # other_layer.cells[i].value
        /\ result_layer.cells[i].value = third_layer.cells[i].value
        /\ IsTransparent(third_layer.cells[j])
        /\ ~IsTransparent(other_layer.cells[j])
        /\ ~IsTransparent(self_layer.cells[j])
        /\ other_layer.cells[j].value # self_layer.cells[j].value
        /\ result_layer.cells[j].value = other_layer.cells[j].value

\* Every cell of the layer is transparent.
AllBlank(layer) == \A index \in 1..Len(layer.cells) : IsTransparent(layer.cells[index])

(* C12: After self + other where other has the shape of self and only       *)
(* whitespace cells, the result is a layer equal to self.                   *)
C12_BlankLayerIsRightIdentity ==
    (layer_op = "add" /\ SameShape /\ AllBlank(other_layer)) =>
        /\ ~IsError(result_layer)
        /\ LayerEq(result_layer, self_layer)

\* C12 witness: a layer with a cell that is not whitespace was merged with a
\* layer of whitespace cells, a tab among them.
C12_Witness ==
    /\ layer_op = "add"
    /\ SameShape
    /\ AllBlank(other_layer)
    /\ \E index \in 1..Len(other_layer.cells) : other_layer.cells[index].value = <<9>>
    /\ \E index \in 1..Len(self_layer.cells) : ~IsTransparent(self_layer.cells[index])
    /\ LayerEq(result_layer, self_layer)

(* C13: self + other leaves self and other as they were and returns a new   *)
(* object; self += other, when it succeeds, returns the object self, leaves *)
(* other as it was, and gives self at every index the cell of other if that *)
(* cell is not whitespace and the cell self had otherwise.                  *)
C13_AddIsPureIAddIsInPlace ==
    [][/\ layer_op' = "add" =>
            /\ self_layer' = self_layer
            /\ other_layer' = other_layer
            /\ ~IsError(result_layer') => returned' = "new"
       /\ (layer_op' = "iadd" /\ ~IsError(result_layer')) =>
            /\ returned' = "self"
            /\ result_layer' = self_layer'
            /\ other_layer' = other_layer
            /\ self_layer'.height = self_layer.height
            /\ self_layer'.width = self_layer.width
            /\ \A index \in 1..Len(self_layer.cells) :
                self_layer'.cells[index] =
                    IF ~IsTransparent(other_layer.cells[index])
                    THEN other_layer.cells[index]
                    ELSE self_layer.cells[index]]_vars

\* C13 witness: self + other returned a new layer that differs from self,
\* so that writing it to self would have shown.
C13_Witness ==
    /\ layer_op = "add"
    /\ returned = "new"
    /\ ~IsError(result_layer)
    /\ ~LayerEq(result_layer, self_layer)

(* C14: self + other and self += other for layers whose heights or widths   *)
(* differ raise ValueError and leave self and other as they were.           *)
C14_ShapeMismatchRaisesAndKeepsOperands ==
    [][(layer_op' \in {"add", "iadd"} /\ ~SameShape) =>
            /\ result_layer' = Raise("ValueError")
            /\ returned' = "error"
            /\ self_layer' = self_layer
            /\ other_layer' = other_layer]_vars

\* C14 witness: self += other was refused for a one-cell self and a two-cell
\* other whose first cell is not whitespace and differs from the cell of self.
C14_Witness ==
    /\ layer_op = "iadd"
    /\ result_layer = Raise("ValueError")
    /\ Len(self_layer.cells) = 1
    /\ Len(other_layer.cells) = 2
    /\ ~IsTransparent(other_layer.cells[1])
    /\ other_layer.cells[1].value # self_layer.cells[1].value

\* The sequence s is the beginning of the sequence t.
IsPrefix(s, t) == Len(s) <= Len(t) /\ SubSeq(t, 1, Len(s)) = s

(* C15: At every point of a game each member of Component holds what it     *)
(* held when the program started, and no step of a round changes a layer a  *)
(* canvas already holds: the layers of the canvas before the step are the    *)
(* first layers of the canvas after it.  (Game._start_round is the one step  *)
(* that makes a new canvas.)                                                 *)
C15_ComponentsAndStoredLayersKeepTheirValues ==
    /\ [](components = Component)
    /\ [][(HasRound /\ pc # "pick_word") =>
            IsPrefix(canvas.layers, canvas'.layers)]_vars

\* C15 witness: in a second round a canvas of the gallows and at least two
\* more layers has just been rendered.
C15_Witness ==
    /\ pc = "prompt_guess"
    /\ Cardinality(used_words) = 2
    /\ Len(out) = 2
    /\ out[1].kind = "canvas"
    /\ Len(canvas.layers) >= 3
    /\ canvas.layers[1] = GALLOWS

\* The value shown at (r, c) of layers: that of the last layer after the
\* first whose value there is not whitespace, or that of the first layer.
VisibleValue(layers, r, c) ==
    LET covering == {i \in 2..Len(layers) :
                        ~StripsToEmpty(GetItem(layers[i], r, c).value)}
    IN  IF covering = {} THEN GetItem(layers[1], r, c).value
        ELSE GetItem(layers[Max(covering)], r, c).value

(* C16: str(canvas) of a canvas with at least one layer is height rows of   *)
(* width characters with one line break between two rows, and the character *)
(* of row r and column c is the value there of the last-added layer whose   *)
(* value there is not whitespace, or of the first layer if no later layer   *)
(* has one.                                                                 *)
C16_StrShowsLastOpaqueLayer ==
    (canvas_op = "str" /\ canvas_self.layers # <<>>) =>
        LET height == canvas_self.height
            width == canvas_self.width
        IN  /\ Len(canvas_result) = height * width + (height - 1)
            /\ Len(SplitLines(canvas_result)) = height
            /\ \A r \in 0..(height - 1) :
                /\ Len(SplitLines(canvas_result)[r + 1]) = width
                /\ r < height - 1 => canvas_result[r * (width + 1) + width + 1] = 10
                /\ \A c \in 0..(width - 1) :
                    <<canvas_result[r * (width + 1) + c + 1]>>
                        = VisibleValue(canvas_self.layers, r, c)

\* C16 witness: a rendered canvas of three layers where the second and the
\* third have different values that are not whitespace at one cell, and the
\* third lets the second show at another.
C16_Witness ==
    /\ canvas_op = "str"
    /\ Len(canvas_self.layers) = 3
    /\ \E i, j \in 1..2 :
        LET second == canvas_self.layers[2].cells
            third == canvas_self.layers[3].cells
        IN  /\ ~IsTransparent(second[i])
            /\ ~IsTransparent(third[i])
            /\ second[i].value # third[i].value
            /\ IsTransparent(third[j])
            /\ ~IsTransparent(second[j])
            /\ second[j].value # canvas_self.layers[1].cells[j].value

(* C17: str(canvas) of a canvas without layers is height lines of width     *)
(* spaces each.                                                             *)
C17_StrOfEmptyCanvasIsBlank ==
    (canvas_op = "str" /\ canvas_self.layers = <<>>) =>
        LET lines == SplitLines(canvas_result)
        IN  /\ Len(canvas_result) = canvas_self.height * (canvas_self.width + 1) - 1
            /\ Len(lines) = canvas_self.height
            /\ \A i \in 1..Len(lines) :
                /\ Len(lines[i]) = canvas_self.width
                /\ \A j \in 1..Len(lines[i]) : lines[i][j] = 32

\* C17 witness: a rendered canvas without layers that is higher than wide.
C17_Witness ==
    /\ canvas_op = "str"
    /\ canvas_self.layers = <<>>
    /\ canvas_self.height = 2
    /\ canvas_self.width = 1
    /\ canvas_result = <<32, 10, 32>>

\* One of the layers passed to add_layers does not fit the canvas.
SomeLayerMisfits(cv, layers) ==
    \E i \in 1..Len(layers) :
        cv.height # layers[i].height \/ cv.width # layers[i].width

(* C18: canvas.add_layers(layers...) raises ValueError and leaves the layers  *)
(* of the canvas as they were if one of the layers passed differs from the  *)
(* canvas in height or width; otherwise it returns None and the canvas      *)
(* holds the layers it held followed by the layers passed, in their order.  *)
C18_AddLayersIsAllOrNothing ==
    [][canvas_op' = "add_layers" =>
        IF SomeLayerMisfits(canvas_self, layers_arg')
        THEN /\ canvas_result' = Raise("ValueError")
             /\ canvas_self' = canvas_self
        ELSE /\ canvas_result' = None
             /\ canvas_self'.layers = canvas_self.layers \o layers_arg']_vars

\* C18 witness: add_layers was refused for a layer that fits followed by one
\* that does not, on a canvas that holds a layer.
C18_Witness ==
    /\ canvas_op = "add_layers"
    /\ canvas_result = Raise("ValueError")
    /\ Len(layers_arg) = 2
    /\ FitsLayer(canvas_self, layers_arg[1])
    /\ ~FitsLayer(canvas_self, layers_arg[2])
    /\ Len(canvas_self.layers) = 1

(* C19: Every layer a canvas holds has the height and the width of the      *)
(* canvas, and no call changes the height or the width of the canvas or     *)
(* makes it hold fewer layers.                                              *)
C19_CanvasKeepsShapeAndLayers ==
    /\ [](\A i \in 1..Len(canvas_self.layers) :
            /\ canvas_self.layers[i].height = canvas_self.height
            /\ canvas_self.layers[i].width = canvas_self.width)
    /\ [][/\ canvas_self'.height = canvas_self.height
          /\ canvas_self'.width = canvas_self.width
          /\ Len(canvas_self'.layers) >= Len(canvas_self.layers)]_vars

\* C19 witness: a canvas made by from_layer that was given a second layer
\* and then refused one that does not fit.
C19_Witness ==
    /\ canvas_op = "add_layers"
    /\ canvas_result = Raise("ValueError")
    /\ Len(canvas_self.layers) = 2
    /\ \E i \in 1..Len(layers_arg) : ~FitsLayer(canvas_self, layers_arg[i])

\* Layer(argument) has been called and the argument has no rows, a row whose
\* length is not that of the first row, or a cell that is not one character.
MalformedArgument ==
    \/ argument = <<>>
    \/ \E i \in 1..Len(argument) : Len(argument[i]) # Len(argument[1])
    \/ \E i \in 1..Len(argument) : \E j \in 1..Len(argument[i]) :
            Len(argument[i][j]) # 1

(* C20: Layer(argument) raises ValueError, and so builds no layer, when the *)
(* argument has no rows, when a row differs in length from the first row,   *)
(* and when a cell is not exactly one character.                            *)
C20_MalformedArgumentRaisesValueError ==
    (constructed # None /\ MalformedArgument) => constructed = Raise("ValueError")

\* C20 witness: Layer(argument) was called without rows and raised
\* IndexError.
C20_Witness ==
    /\ argument = <<>>
    /\ constructed = Raise("IndexError")

(* C21: every layer, whether built by Layer(...), from_text, from_sequence  *)
(* or copy() or left by a merge (+ or +=), has height * width cells, the    *)
(* cell at flat index row * width + column has that row and that column,    *)
(* and layer[(row, column)] is that cell.                                   *)
C21_CellsAreIndexedByRowAndColumn ==
    IsBuilt =>
        /\ Len(built.cells) = built.height * built.width
        /\ \A r \in 0..(built.height - 1) : \A c \in 0..(built.width - 1) :
            LET cell == built.cells[r * built.width + c + 1]
            IN  /\ cell.row = r
                /\ cell.column = c
                /\ GetItem(built, r, c) = cell

\* C21 witness: a merge in place has left a layer of two rows and two
\* columns whose last cell was written by the merge.
C21_Witness ==
    /\ built_by = "iadd"
    /\ IsBuilt
    /\ built.height = 2
    /\ built.width = 2
    /\ built.cells[4].value = <<121>>

\* The positions (from 1) of the value of w that hold the character c.
PositionsOf(w, c) == {i \in 1..Len(w.value) : <<w.value[i]>> = c}

(* C22: for every secret and every character of it, count(character)       *)
(* returns the number of positions of the secret that hold the character,   *)
(* and after the call the mask shows the character at exactly those         *)
(* positions and what it showed before at the others.                       *)
C22_GuessRevealsAllOccurrences ==
    [][(PositionsOf(word_self, word_guess') # {}) =>
          /\ ~IsError(word_count')
          /\ word_count'.count = Cardinality(PositionsOf(word_self, word_guess'))
          /\ Len(word_self'.masked) = Len(word_self.value)
          /\ \A i \in 1..Len(word_self.value) :
                word_self'.masked[i] =
                    IF i \in PositionsOf(word_self, word_guess')
                    THEN word_guess' ELSE word_self.masked[i]]_wordVars

\* C22 witness: the secret is upper-cased to 'SS', its mask has one
\* position, and count('S') has raised IndexError after writing to it.
C22_Witness ==
    /\ secret = <<223>>
    /\ word_guess = <<83>>
    /\ word_count = Raise("IndexError")
    /\ word_self.masked = <<(<<83>>)>>

(* C23: count(guess) for a guess whose upper-casing is no character of the  *)
(* secret returns 0 and leaves the word as it was: the mask, and with it    *)
(* the display and all_clear.                                               *)
C23_AbsentGuessReturnsZeroAndKeepsMask ==
    [][(PositionsOf(word_self, StrUpper(word_guess')) = {}) =>
          /\ word_count' = [count |-> 0]
          /\ word_self' = word_self
          /\ CurrentState(word_self') = CurrentState(word_self)
          /\ AllClear(word_self') = AllClear(word_self)]_wordVars

\* C23 witness: 'A' of the secret 'AB' is shown, and count('S') has returned
\* 0.
C23_Witness ==
    /\ secret = <<65, 66>>
    /\ word_self.masked = <<(<<65>>), (<<95>>)>>
    /\ word_guess = <<83>>
    /\ word_count = [count |-> 0]

\* The guess is one lower-case letter.
IsLowerCase(guess) == Len(guess) = 1 /\ guess[1] >= 97 /\ guess[1] <= 122

(* C24: count(guess) for a lower-case guess does not raise, and it returns  *)
(* what count of the upper-cased guess returns and leaves the word that     *)
(* call leaves.                                                             *)
C24_LowerCaseGuessCountsAsUpperCase ==
    [][IsLowerCase(word_guess') =>
          LET upper == WordCount(word_self, StrUpper(word_guess'))
          IN  /\ ~IsError(word_count')
              /\ ~IsError(upper) => /\ word_count'.count = upper.count
                                    /\ word_self' = upper.word]_wordVars

\* C24 witness: count('a') on the secret 'a' has raised KeyError and the
\* mask is as it was.
C24_Witness ==
    /\ secret = <<97>>
    /\ word_guess = <<97>>
    /\ word_count = Raise("KeyError")
    /\ word_self.masked = <<(<<95>>)>>

(* C25: count(guess) for a guess made before returns (or raises) what it    *)
(* did then and leaves the mask as it was before the repeated call.         *)
C25_RepeatedGuessIsIdempotent ==
    [][(word_guess' \in DOMAIN word_counts) =>
          /\ word_count' = word_counts[word_guess']
          /\ word_self'.masked = word_self.masked]_wordVars

\* C25 witness: both positions of the secret 'AA' are shown, 'A' and 'B'
\* have been guessed, and the last call, count('A'), returned 2.
C25_Witness ==
    /\ secret = <<65, 65>>
    /\ DOMAIN word_counts = {<<65>>, <<66>>}
    /\ word_guess = <<65>>
    /\ word_count = [count |-> 2]
    /\ word_counts[<<66>>] = [count |-> 0]

\* The character c has been passed to count.
Guessed(c) == c \in DOMAIN word_counts

(* C26: after any guesses the mask has as many positions as the upper-cased *)
(* secret; the display is, joined by spaces, the character of each position *)
(* if it has been guessed and '_' if not; and all_clear holds exactly when   *)
(* every character of the secret has been guessed.                          *)
C26_MaskFollowsSecretAndGuesses ==
    (word_self # None) =>
        /\ Len(word_self.masked) = Len(word_self.value)
        /\ CurrentState(word_self) =
              Join(<<32>>, [i \in 1..Len(word_self.value) |->
                              IF Guessed(<<word_self.value[i]>>)
                              THEN <<word_self.value[i]>> ELSE <<95>>])
        /\ AllClear(word_self) <=>
              \A i \in 1..Len(word_self.value) : Guessed(<<word_self.value[i]>>)

\* C26 witness: the secret 'aß' is upper-cased to 'ASS', of three
\* characters, the mask has two positions, and 'A' and 'S' have been
\* guessed.
C26_Witness ==
    /\ secret = <<97, 223>>
    /\ word_self.value = <<65, 83, 83>>
    /\ Len(word_self.masked) = 2
    /\ Guessed(<<65>>)
    /\ Guessed(<<83>>)

\* The validators of the call that the response fails, by index.
FailingValidators(response) ==
    {i \in 1..Len(ask_validators) :
        ~Passes(ask_validators[i], response, ask_choices, AskPrevious)}

\* The responses that failed a validator, by the number of their prompt.
RejectedPrompts ==
    {i \in 1..Len(ask_raws) : FailingValidators(StrUpper(ask_raws[i])) # {}}

\* The least number of a non-empty set of numbers.
Min(S) == CHOOSE x \in S : \A y \in S : x <= y

(* C27: ask returns the upper-cased response to its last prompt and that    *)
(* response passes every validator; every earlier response failed one, and  *)
(* for each of them the validators were called in list order up to the      *)
(* first that failed, the warning of that validator alone was replied, and  *)
(* the prompt was issued again: the prompts are the rejected responses and, *)
(* once ask has returned, one more.                                         *)
C27_AskRepromptsUntilEveryValidatorPasses ==
    ask_pc \in {"prompt", "returned"} =>
        /\ ask_prompts = Len(ask_raws)
        /\ Len(ask_replies) = Cardinality(RejectedPrompts)
        /\ \A i \in 1..Len(ask_replies) :
              /\ i \in RejectedPrompts
              /\ LET first == Min(FailingValidators(StrUpper(ask_raws[i])))
                 IN  ask_replies[i] = ask_validators[first].warning
        /\ ask_raws # <<>> =>
              LET failing == FailingValidators(StrUpper(ask_raws[Len(ask_raws)]))
                  last == IF failing = {} THEN Len(ask_validators) ELSE Min(failing)
              IN  ask_calls = [i \in 1..last |-> i]
        /\ ask_pc = "prompt" =>
              /\ ask_returned = None
              /\ ask_prompts = Cardinality(RejectedPrompts)
        /\ ask_pc = "returned" =>
              /\ ask_returned = [value |-> StrUpper(ask_raws[Len(ask_raws)])]
              /\ FailingValidators(ask_returned.value) = {}
              /\ ask_prompts = Cardinality(RejectedPrompts) + 1

\* C27 witness: with the validators of a letter and of a choice, '1' failed
\* both and the warning of the first was replied, 'b' failed the second and
\* its warning was replied, and 'y', upper-cased, was returned at the third
\* prompt.
C27_Witness ==
    /\ ask_pc = "returned"
    /\ Len(ask_validators) = 2
    /\ ask_validators[1].predicate = "_response_is_ascii_letter"
    /\ ask_validators[2].predicate = "_response_is_valid_choice"
    /\ ask_raws = <<(<<49>>), (<<98>>), (<<121>>)>>
    /\ ask_replies = <<"Invalid guess. Please input a letter.", INVALID_RESPONSE>>
    /\ ask_returned = [value |-> <<89>>]
    /\ ask_prompts = 3

\* The descriptors of the list under test that have a shortcut or an alias
\* which is the item looked up, but for the case of letters.
DescriptorsMatching(item) ==
    {i \in 1..Len(choice_kwargs) :
        \E key \in KeysOf(choice_kwargs[i]) : item \in CaseVariants(key)}

(* C28: `item in list` holds exactly when list[item] returns a Choice; the  *)
(* shortcut and every alias of a descriptor, in any case, are in the list   *)
(* and get one and the same Choice, with the upper-cased shortcut, the      *)
(* upper-cased aliases and the description and value of the descriptor; an  *)
(* item that is no shortcut and no alias is not in the list.                *)
C28_LookupIgnoresCaseAndAgreesWithContains ==
    (choice_got # None) =>
        /\ choice_found <=> ~IsError(choice_got)
        /\ choice_found <=> DescriptorsMatching(choice_item) # {}
        /\ \A i \in DescriptorsMatching(choice_item) :
              LET d == choice_kwargs[i]
              IN  /\ ~IsError(choice_got)
                  /\ choice_got.shortcut = StrUpper(d.shortcut)
                  /\ choice_got.aliases = {StrUpper(alias) : alias \in d.aliases}
                  /\ choice_got.description = d.description
                  /\ choice_got.value = d.value
                  /\ \A key \in KeysOf(d) : \A item \in CaseVariants(key) :
                        ChoiceListGetItem(choice_self, item) = choice_got

\* C28 witness: in a list of two descriptors, the alias 'Nay' of the second
\* was looked up as 'nAY' and the Choice N of 'No' was returned.
C28_Witness ==
    /\ Len(choice_kwargs) = 2
    /\ choice_kwargs[2].shortcut = <<110>>
    /\ choice_item = <<110, 65, 89>>
    /\ choice_found
    /\ ~IsError(choice_got)
    /\ choice_got.shortcut = <<78>>
    /\ choice_got.description = "No"
    /\ choice_got.aliases = {<<78, 79>>, <<78, 65, 89>>}

\* The name of the level file that call i resolves to: for from_level the
\* file of the level whose name the argument is in some case, for
\* WordList(filename) the name passed; "" when there is none.
ResolvedFile(i) ==
    IF calls[i].call = "WordList" THEN calls[i].filename
    ELSE IF calls[i].level \in CaseVariants(EASY) THEN "words/easy.txt"
    ELSE IF calls[i].level \in CaseVariants(MEDIUM) THEN "words/medium.txt"
    ELSE IF calls[i].level \in CaseVariants(HARD) THEN "words/hard.txt"
    ELSE IF calls[i].level \in CaseVariants(UNIX) THEN "words/unix.txt"
    ELSE ""

(* C29: two calls of WordList(...) or WordList.from_level(...) that resolve *)
(* to one file of the package, whatever the case of the level, both return  *)
(* and return the same instance, which holds the lines of that file; calls  *)
(* for different files return different instances; and no file is read more *)
(* than once.                                                               *)
C29_WordListsAreCachedPerFile ==
    /\ \A i, j \in 1..Len(calls) :
          (ResolvedFile(i) \in ExistingFiles /\ ResolvedFile(j) \in ExistingFiles) =>
              /\ ~IsError(calls[i].result)
              /\ calls[i].result.loaded
              /\ calls[i].result.list = FileLines(ResolvedFile(i))
              /\ ~IsError(calls[j].result)
              /\ (ResolvedFile(i) = ResolvedFile(j))
                    <=> (calls[i].result.id = calls[j].result.id)
    /\ \A name \in DOMAIN reads : reads[name] <= 1

\* C29 witness: WordList(path to easy.txt), from_level('easy') and
\* from_level('HarD') were called in this order; the first two returned one
\* instance and the third another, and each file was read once.
C29_Witness ==
    /\ Len(calls) = 3
    /\ calls[1].call = "WordList"
    /\ calls[1].filename = "words/easy.txt"
    /\ calls[2].call = "from_level"
    /\ calls[2].level = <<101, 97, 115, 121>>
    /\ calls[3].call = "from_level"
    /\ calls[3].level = <<72, 97, 114, 68>>
    /\ calls[1].result.id = 1
    /\ calls[2].result.id = 1
    /\ calls[3].result.id = 2
    /\ reads["words/easy.txt"] = 1
    /\ reads["words/hard.txt"] = 1

(* C30: within one game the words of the rounds differ.  _used_words never  *)
(* loses a word; a round is started by _start_round alone, with a word that *)
(* was not in _used_words and is in it when the round starts, so in it are  *)
(* the words of all earlier rounds, of every level; and the Word of a round *)
(* holds that word until the next round is started.                         *)
C30_NoWordIsUsedInTwoRounds ==
    [][/\ used_words \subseteq used_words'
       /\ (pc = "pick_word" /\ pc' = "round") =>
             \E w \in used_words' :
                /\ w \notin used_words
                /\ used_words' = used_words \cup {w}
                /\ word' = WordNew(w)
       /\ (pc' = "round" /\ pc # "pick_word") =>
             /\ pc = "prompt_guess"
             /\ word'.value = word.value
       /\ (pc # "pick_word") => used_words' = used_words]_gameVars

\* C30 witness: the second round has just been started at the level HARD,
\* whose one word the first round, at the level EASY, did not use.
C30_Witness ==
    /\ pc = "round"
    /\ guesses = {}
    /\ level = HARD
    /\ used_words = {<<97, 98>>, <<99, 45, 99>>}
    /\ word.value = <<67, 45, 67>>
    /\ AllClear(word) = FALSE

\* The fixed sequence of the layers of a round: the gallows, the six body
\* parts in the order of the stack, and the overlay of a lost round.
RoundLayers ==
    <<GALLOWS, HEAD, TRUNK, LEFT_ARM, RIGHT_ARM, LEFT_LEG, RIGHT_LEG, YOU_LOST>>

(* C31: at every point of a round the layers of the canvas are the first of *)
(* gallows, head, trunk, left arm, right arm, left leg, right leg, you-lost: *)
(* 1 + (6 - lives_left) of them while lives are left and all 8 when none is; *)
(* and the stack holds the body parts not yet on the canvas, in that order.  *)
C31_CanvasIsPrefixOfRoundLayers ==
    HasRound =>
        /\ IsPrefix(canvas.layers, RoundLayers)
        /\ Len(canvas.layers) = IF lives_left > 0 THEN 1 + (6 - lives_left) ELSE 8
        /\ layer_stack = SubSeq(RoundLayers, 8 - lives_left, 7)

\* C31 witness: three lives are lost in a running round: the canvas holds
\* the gallows, the head, the trunk and the left arm, the stack the rest.
C31_Witness ==
    /\ pc = "prompt_guess"
    /\ lives_left = 3
    /\ Len(canvas.layers) = 4
    /\ canvas.layers[4] = LEFT_ARM
    /\ layer_stack = <<RIGHT_ARM, LEFT_LEG, RIGHT_LEG>>

\* The single letters 'A'..'Z'.
AsciiUpperLetters == {<<c>> : c \in 65..90}

\* The guesses processed in the round stay within the bounds: correct ones
\* by the distinct characters of the word, incorrect ones by the six lives,
\* all of them by both and by the alphabet.
GuessesWithinBounds ==
    LET d == Cardinality(WordCharacters)
    IN  /\ Cardinality(guesses \ WrongGuesses) <= d
        /\ Cardinality(WrongGuesses) <= 6
        /\ Cardinality(guesses) <= d + 5
        /\ guesses \subseteq AsciiUpperLetters
        /\ Cardinality(guesses) <= 26

\* The round has stopped: won, lost, or the wait for a guess interrupted.
RoundOver ==
    \/ pc = "game_loop" /\ (AllClear(word) \/ lives_left = 0)
    \/ pc = "interrupted"

(* C32: every round terminates.  When the input callable keeps supplying a  *)
(* valid guess whenever asked, a running round reaches Won or Lost (or the  *)
(* wait for a guess is interrupted); a round whose word has d distinct      *)
(* characters processes at most d correct and at most 6 incorrect guesses,  *)
(* at most d + 5 in all, and never more than 26.                            *)
C32_EveryRoundTerminates ==
    /\ [](HasRound => GuessesWithinBounds)
    /\ (RoundRunning ~> RoundOver)

\* C32 witness: a round is lost with d + 5 guesses processed, one of them
\* correct: the six lives went after the only letter of the word was found.
C32_Witness ==
    /\ pc = "game_loop"
    /\ HasRound
    /\ lives_left = 0
    /\ Cardinality(guesses) = Cardinality(WordCharacters) + 5
    /\ Cardinality(guesses \ WrongGuesses) = 1

\* The places of the messages of a step that hold the 'Game over.' banner.
Banners(messages) ==
    {i \in 1..Len(messages) : messages[i] = Msg("game_over", "Game over.")}

\* Game.end is not executed twice: the ended flag, once true, stays true;
\* the banner and the points are output in one step only, the one that sets
\* the flag, once each; that step is the end of a lost round, a declined
\* 'Continue?' or an interrupt; and a run that has returned has ended.
EndIsExecutedAtMostOnce ==
    /\ [][/\ ended => ended'
          /\ Banners(out') # {} => ~ended /\ ended'
          /\ (~ended /\ ended') =>
                /\ Cardinality(Banners(out')) = 1
                /\ SubSeq(out', Len(out') - 1, Len(out')) = EndOutput(points')
                /\ \/ pc = "round" /\ lives_left = 0
                   \/ pc = "prompt_continue" /\ pc' = "done"
                   \/ pc' = "interrupted"]_vars
    /\ [](pc = "done" => ended)

(* C33: in every run of Game.start that is not interrupted, Game.end is     *)
(* executed exactly once, by the lost round or by the game loop after a     *)
(* declined 'Continue?', never by both: the game is ended at some point of  *)
(* the run, and the banner and the final points are output once, the ended  *)
(* flag staying true from then on.                                          *)
C33_EndIsExecutedExactlyOnce ==
    /\ EndIsExecutedAtMostOnce
    /\ <>(ended \/ pc = "interrupted")

\* C33 witness: the game is not ended and _start_round draws from a word
\* list all of whose words are used: its loop `while word in
\* self._used_words` has no way out.
C33_Witness ==
    /\ pc = "pick_word"
    /\ ~ended
    /\ \A i \in 1..Len(WordListFromLevel(level)) :
            WordListFromLevel(level)[i] \in used_words

====
